---- MODULE Spec2Model ----
(***************************************************************************)
(* Model of the answer-generation pipeline of src/llm/generate.py:         *)
(* generate_response, is_bandwidth_query, generate_response_with_reasoning,*)
(* generate_with_ollama, generate_with_api and fallback_parser             *)
(* (specification Spec), and of the experiment page of                     *)
(* src/routes/experiment_details.py: re_run_experiment with its background *)
(* thread, save_edited_experiment and delete_experiment (specification     *)
(* ReRunSpec).                                                             *)
(*                                                                         *)
(* A Python str is a sequence of one-character strings, so slicing,        *)
(* substring tests, split, join, strip and lower are computed as Python    *)
(* computes them.  A document is a record with the four keys the code      *)
(* reads with doc.get; a pool is a sequence of documents.                  *)
(*                                                                         *)
(* Line 64 of generate.py (the "except" of the bandwidth block) is         *)
(* mis-indented in the file; the model follows the evident structure       *)
(* try: ... except Exception: pass around lines 57-66.                     *)
(***************************************************************************)
EXTENDS Integers, Sequences, FiniteSets, TLC

(***************************************************************************)
(* String literals of the source, character by character.                  *)
(***************************************************************************)
\* line 28: the substitute text of get_framework_context
FrameworkSubstitute ==
  <<"F","r","a","m","e","w","o","r","k"," ","d","o","c","u","m","e",
    "n","t"," ","c","o","u","l","d"," ","n","o","t"," ","b","e"," ",
    "l","o","a","d","e","d","."," ","K","e","y"," ","c","o","n","c",
    "e","p","t","s"," ","i","n","c","l","u","d","e",":"," ","N","e",
    "t","w","o","r","k",","," ","N","o","d","e",","," ","L","i","n",
    "k",","," ","F","l","o","w",","," ","C","o","n","n","e","c","t",
    "i","o","n",","," ","E","v","e","n","t",","," ","A","f","t","e",
    "r","m","a","t","h",","," ","a","n","d"," ","S","i","m","u","l",
    "a","t","o","r",".">>

\* line 49: the placeholder generate_with_ollama returns on any exception
OllamaErrorMsg ==
  <<"T","h","e","r","e"," ","w","a","s"," ","a","n"," ","e","r","r",
    "o","r"," ","c","a","l","l","i","n","g"," ","t","h","e"," ","l",
    "o","c","a","l"," ","m","o","d","e","l"," ","t","h","r","o","u",
    "g","h"," ","O","l","l","a","m","a",".">>

\* line 85: the message of the general branch when both retrievals are empty
NoDataMsg ==
  <<"I"," ","c","o","u","l","d","n","'","t"," ","f","i","n","d"," ",
    "a","n","y"," ","s","i","m","u","l","a","t","i","o","n"," ","d",
    "a","t","a"," ","t","o"," ","a","n","s","w","e","r"," ","y","o",
    "u","r"," ","q","u","e","s","t","i","o","n",".">>

\* line 287: the message of the reasoning branch when both retrievals are empty
NoDataReasoningMsg ==
  <<"I"," ","c","o","u","l","d","n","'","t"," ","f","i","n","d"," ",
    "a","n","y"," ","s","i","m","u","l","a","t","i","o","n"," ","d",
    "a","t","a"," ","t","o"," ","r","e","a","s","o","n"," ","a","b",
    "o","u","t",".">>

\* line 317: the message of the except of the reasoning branch, before str(e)
ReasoningErrorLit ==
  <<"I"," ","h","a","d"," ","t","r","o","u","b","l","e"," ","a","p",
    "p","l","y","i","n","g"," ","s","t","e","p","-","b","y","-","s",
    "t","e","p"," ","r","e","a","s","o","n","i","n","g"," ","t","o",
    " ","y","o","u","r"," ","q","u","e","s","t","i","o","n","."," ",
    "E","r","r","o","r",":"," ">>

\* line 395: the placeholder of generate_with_api when it cannot fall back
ApiErrorMsg ==
  <<"I","'","m"," ","s","o","r","r","y",","," ","I"," ","c","o","u",
    "l","d","n","'","t"," ","a","c","c","e","s","s"," ","t","h","e",
    " ","l","a","n","g","u","a","g","e"," ","m","o","d","e","l"," ",
    "s","e","r","v","i","c","e","."," ","P","l","e","a","s","e"," ",
    "t","r","y"," ","a","g","a","i","n"," ","l","a","t","e","r",".">>

\* line 69: the first phrase of the list
KwStepByStep ==
  <<"s","t","e","p"," ","b","y"," ","s","t","e","p">>

\* line 69: the phrases that select the reasoning branch
ReasoningPhrases ==
  {
    <<"s","t","e","p"," ","b","y"," ","s","t","e","p">>,
    <<"e","x","p","l","a","i","n"," ","y","o","u","r"," ","t","h","i",
      "n","k","i","n","g">>,
    <<"s","h","o","w"," ","y","o","u","r"," ","w","o","r","k">>,
    <<"r","e","a","s","o","n","i","n","g">>
  }

\* lines 256, 428, 431: "bandwidth"
KwBandwidth ==
  <<"b","a","n","d","w","i","d","t","h">>

\* lines 263, 428: "average"
KwAverage ==
  <<"a","v","e","r","a","g","e">>

\* line 256
bandwidth_keywords ==
  {
    <<"b","a","n","d","w","i","d","t","h">>,
    <<"t","h","r","o","u","g","h","p","u","t">>,
    <<"s","p","e","e","d">>,
    <<"d","a","t","a"," ","r","a","t","e">>
  }

\* line 257
file_keywords ==
  {
    <<"f","l","o","w">>,
    <<"f","l","o","w","_","b","a","n","d","w","i","d","t","h">>,
    <<"f","l","o","w"," ","b","a","n","d","w","i","d","t","h">>,
    <<"f","l","o","w","_","b","a","n","d","w","i","d","t","h",".","c",
      "s","v">>
  }

\* line 263
stat_keywords ==
  {
    <<"a","v","e","r","a","g","e">>,
    <<"a","v","g">>,
    <<"m","e","a","n">>,
    <<"s","t","a","t","i","s","t","i","c","s">>,
    <<"c","a","l","c","u","l","a","t","e">>,
    <<"m","e","d","i","a","n">>,
    <<"m","i","n">>,
    <<"m","a","x">>
  }

\* line 411
KwNode ==
  <<"n","o","d","e">>

\* line 411
KwCount ==
  <<"c","o","u","n","t">>

\* line 411
KwHowMany ==
  <<"h","o","w"," ","m","a","n","y">>

\* line 414
NodeInfoCsv ==
  <<"n","o","d","e","_","i","n","f","o",".","c","s","v">>

\* line 113
DotCsv ==
  <<".","c","s","v">>

\* lines 117, 119, 122, 227, 295: the "..." marker
Ellipsis3 ==
  <<".",".",".">>

\* lines 119, 122, 295: the literal segments of the context entries
ContextLit ==
  <<
    <<"F","r","o","m"," ">>,
    <<" ","-"," ">>,
    <<" ","(","P","a","r","a","m","e","t","e","r","s",":"," ">>,
    <<")",":","\n">>,
    <<":","\n">>
  >>

\* line 151: the literal segments of an experiment summary line
SummaryLit ==
  <<
    <<"*","*">>,
    <<"*","*"," ","(","P","a","r","a","m","e","t","e","r","s",":"," ">>,
    <<")",":"," ">>,
    <<" ","f","i","l","e","s"," ","-"," ">>
  >>

\* lines 151, 158, 220, 470, 472, 475: the separator of the joins
CommaSp ==
  <<","," ">>

\* lines 153-180: the literal segments of the multi-experiment template
PromptMultiLit ==
  <<
    <<"Y","o","u"," ","a","r","e"," ","a","n"," ","A","I"," ","a","s",
      "s","i","s","t","a","n","t"," ","p","e","r","f","o","r","m","i",
      "n","g"," ","C","O","M","P","R","E","H","E","N","S","I","V","E",
      " ","C","O","M","P","A","R","A","T","I","V","E"," ","A","N","A",
      "L","Y","S","I","S"," ","a","c","r","o","s","s"," ","m","u","l",
      "t","i","p","l","e"," ","n","e","t","w","o","r","k"," ","s","i",
      "m","u","l","a","t","i","o","n"," ","e","x","p","e","r","i","m",
      "e","n","t","s",".","\n","\n","I","M","P","O","R","T","A","N","T",
      ":"," ","Y","o","u"," ","h","a","v","e"," ","a","c","c","e","s",
      "s"," ","t","o"," ","A","L","L"," ","s","i","m","u","l","a","t",
      "i","o","n"," ","d","a","t","a"," ","f","r","o","m"," ","A","L",
      "L"," ","s","e","l","e","c","t","e","d"," ","e","x","p","e","r",
      "i","m","e","n","t","s","."," ","U","s","e"," ","t","h","i","s",
      " ","c","o","m","p","l","e","t","e"," ","d","a","t","a","s","e",
      "t"," ","t","o"," ","p","r","o","v","i","d","e"," ","t","h","o",
      "r","o","u","g","h"," ","c","o","m","p","a","r","a","t","i","v",
      "e"," ","a","n","a","l","y","s","i","s",".","\n","\n","*","*","A",
      "N","A","L","Y","S","I","S"," ","S","C","O","P","E",":","*","*",
      "\n","-"," ">>,
    <<" ","d","i","f","f","e","r","e","n","t"," ","e","x","p","e","r",
      "i","m","e","n","t","s",":"," ">>,
    <<"\n","-"," ">>,
    <<" ","t","o","t","a","l"," ","d","a","t","a"," ","f","i","l","e",
      "s"," ","a","n","a","l","y","z","e","d","\n","-"," ","C","o","m",
      "p","l","e","t","e"," ","d","a","t","a"," ","c","o","v","e","r",
      "a","g","e"," ","f","o","r"," ","a","c","c","u","r","a","t","e",
      " ","c","o","m","p","a","r","i","s","o","n","\n","\n","*","*","E",
      "X","P","E","R","I","M","E","N","T"," ","D","E","T","A","I","L",
      "S",":","*","*","\n">>,
    <<"\n","\n","*","*","A","N","A","L","Y","S","I","S"," ","I","N","S",
      "T","R","U","C","T","I","O","N","S",":","*","*","\n","-"," ","C",
      "o","m","p","a","r","e"," ","d","a","t","a"," ","a","c","r","o",
      "s","s"," ","A","L","L"," ","e","x","p","e","r","i","m","e","n",
      "t","s","\n","-"," ","I","d","e","n","t","i","f","y"," ","p","a",
      "t","t","e","r","n","s",","," ","d","i","f","f","e","r","e","n",
      "c","e","s",","," ","a","n","d"," ","p","e","r","f","o","r","m",
      "a","n","c","e"," ","m","e","t","r","i","c","s","\n","-"," ","F",
      "o","r"," ","\"","w","h","i","c","h"," ","p","e","r","f","o","r",
      "m","e","d"," ","b","e","s","t","\""," ","q","u","e","s","t","i",
      "o","n","s",","," ","a","n","a","l","y","z","e"," ","a","l","l",
      " ","r","e","l","e","v","a","n","t"," ","m","e","t","r","i","c",
      "s"," ","a","n","d"," ","p","r","o","v","i","d","e"," ","r","a",
      "n","k","i","n","g","s","\n","-"," ","E","x","t","r","a","c","t",
      " ","s","p","e","c","i","f","i","c"," ","n","u","m","b","e","r",
      "s"," ","a","n","d"," ","s","t","a","t","i","s","t","i","c","s",
      " ","f","r","o","m"," ","t","h","e"," ","d","a","t","a","\n","-",
      " ","C","l","e","a","r","l","y"," ","i","d","e","n","t","i","f",
      "y"," ","w","h","i","c","h"," ","e","x","p","e","r","i","m","e",
      "n","t"," ","e","a","c","h"," ","d","a","t","a"," ","p","o","i",
      "n","t"," ","c","o","m","e","s"," ","f","r","o","m","\n","\n","#",
      "#"," ","F","l","o","o","d","N","S"," ","F","r","a","m","e","w",
      "o","r","k"," ","C","o","n","c","e","p","t","s",":","\n">>,
    <<"\n","\n","#","#"," ","C","O","M","P","L","E","T","E"," ","M","u",
      "l","t","i","-","E","x","p","e","r","i","m","e","n","t"," ","D",
      "a","t","a","s","e","t"," ","(">>,
    <<" ","f","i","l","e","s",")",":","\n">>,
    <<"\n","\n","*","*","U","s","e","r"," ","Q","u","e","s","t","i","o",
      "n",":","*","*"," ">>,
    <<"\n","\n","*","*","P","r","o","v","i","d","e"," ","c","o","m","p",
      "r","e","h","e","n","s","i","v","e"," ","c","o","m","p","a","r",
      "a","t","i","v","e"," ","a","n","a","l","y","s","i","s"," ","b",
      "a","s","e","d"," ","o","n"," ","A","L","L"," ","a","v","a","i",
      "l","a","b","l","e"," ","s","i","m","u","l","a","t","i","o","n",
      " ","d","a","t","a",":","*","*">>
  >>

\* lines 182-205: the literal segments of the single-experiment template
PromptSingleLit ==
  <<
    <<"Y","o","u"," ","a","r","e"," ","a","n"," ","A","I"," ","a","s",
      "s","i","s","t","a","n","t"," ","p","e","r","f","o","r","m","i",
      "n","g"," ","C","O","M","P","R","E","H","E","N","S","I","V","E",
      " ","A","N","A","L","Y","S","I","S"," ","o","f"," ","n","e","t",
      "w","o","r","k"," ","s","i","m","u","l","a","t","i","o","n"," ",
      "d","a","t","a",".","\n","\n","I","M","P","O","R","T","A","N","T",
      ":"," ","Y","o","u"," ","h","a","v","e"," ","a","c","c","e","s",
      "s"," ","t","o"," ","A","L","L"," ","s","i","m","u","l","a","t",
      "i","o","n"," ","f","i","l","e","s"," ","f","r","o","m"," ","t",
      "h","i","s"," ","e","x","p","e","r","i","m","e","n","t","."," ",
      "U","s","e"," ","t","h","i","s"," ","c","o","m","p","l","e","t",
      "e"," ","d","a","t","a","s","e","t"," ","t","o"," ","p","r","o",
      "v","i","d","e"," ","t","h","o","r","o","u","g","h"," ","a","n",
      "a","l","y","s","i","s",".","\n","\n","*","*","A","N","A","L","Y",
      "S","I","S"," ","S","C","O","P","E",":","*","*","\n","-"," ">>,
    <<" ","t","o","t","a","l"," ","d","a","t","a"," ","f","i","l","e",
      "s"," ","a","n","a","l","y","z","e","d","\n","-"," ","C","o","m",
      "p","l","e","t","e"," ","d","a","t","a"," ","c","o","v","e","r",
      "a","g","e"," ","f","o","r"," ","a","c","c","u","r","a","t","e",
      " ","a","n","a","l","y","s","i","s","\n","\n","*","*","A","N","A",
      "L","Y","S","I","S"," ","I","N","S","T","R","U","C","T","I","O",
      "N","S",":","*","*","\n","-"," ","A","n","a","l","y","z","e"," ",
      "A","L","L"," ","a","v","a","i","l","a","b","l","e"," ","d","a",
      "t","a"," ","f","i","l","e","s"," ","f","o","r"," ","c","o","m",
      "p","r","e","h","e","n","s","i","v","e"," ","i","n","s","i","g",
      "h","t","s","\n","-"," ","E","x","t","r","a","c","t"," ","s","p",
      "e","c","i","f","i","c"," ","n","u","m","b","e","r","s",","," ",
      "s","t","a","t","i","s","t","i","c","s"," ","a","n","d"," ","f",
      "a","c","t","u","a","l"," ","i","n","f","o","r","m","a","t","i",
      "o","n"," ","f","r","o","m"," ","t","h","e"," ","p","r","o","v",
      "i","d","e","d"," ","d","a","t","a","\n","-"," ","I","f"," ","t",
      "h","e"," ","d","a","t","a"," ","c","o","n","t","a","i","n","s",
      " ","C","S","V"," ","c","o","n","t","e","n","t",","," ","a","n",
      "a","l","y","z","e"," ","t","h","e"," ","s","t","r","u","c","t",
      "u","r","e"," ","a","n","d"," ","c","o","u","n","t"," ","u","n",
      "i","q","u","e"," ","e","n","t","r","i","e","s"," ","i","f"," ",
      "n","e","e","d","e","d","\n","-"," ","F","o","r"," ","n","o","d",
      "e"," ","c","o","u","n","t","s",","," ","c","o","u","n","t"," ",
      "u","n","i","q","u","e"," ","n","o","d","e"," ","I","D","s",".",
      " ","F","o","r"," ","b","a","n","d","w","i","d","t","h"," ","q",
      "u","e","s","t","i","o","n","s",","," ","l","o","o","k"," ","f",
      "o","r"," ","n","u","m","e","r","i","c","a","l"," ","v","a","l",
      "u","e","s","\n","-"," ","P","r","o","v","i","d","e"," ","d","e",
      "t","a","i","l","e","d"," ","a","n","a","l","y","s","i","s"," ",
      "b","a","s","e","d"," ","o","n"," ","A","L","L"," ","a","v","a",
      "i","l","a","b","l","e"," ","s","i","m","u","l","a","t","i","o",
      "n"," ","d","a","t","a","\n","\n","#","#"," ","F","l","o","o","d",
      "N","S"," ","F","r","a","m","e","w","o","r","k"," ","C","o","n",
      "c","e","p","t","s",":","\n">>,
    <<"\n","\n","#","#"," ","C","O","M","P","L","E","T","E"," ","S","i",
      "n","g","l","e","-","E","x","p","e","r","i","m","e","n","t"," ",
      "D","a","t","a","s","e","t"," ","(">>,
    <<" ","f","i","l","e","s",")",":","\n">>,
    <<"\n","\n","*","*","U","s","e","r"," ","Q","u","e","s","t","i","o",
      "n",":","*","*"," ">>,
    <<"\n","\n","*","*","P","r","o","v","i","d","e"," ","c","o","m","p",
      "r","e","h","e","n","s","i","v","e"," ","a","n","a","l","y","s",
      "i","s"," ","b","a","s","e","d"," ","o","n"," ","A","L","L"," ",
      "a","v","a","i","l","a","b","l","e"," ","s","i","m","u","l","a",
      "t","i","o","n"," ","d","a","t","a",":","*","*">>
  >>

\* lines 219-222: the literal segments of sources_info, multi-experiment
SourcesMultiLit ==
  <<
    <<"\n","R","e","t","r","i","e","v","e","d"," ","A","L","L"," ">>,
    <<" ","d","o","c","u","m","e","n","t","s"," ","f","r","o","m"," ">>,
    <<" ","e","x","p","e","r","i","m","e","n","t","s"," ","(">>,
    <<")",":","\n">>,
    <<"\n">>
  >>

\* lines 229-235: the literal segments of sources_info, single experiment
SourcesSingleLit ==
  <<
    <<"\n","R","e","t","r","i","e","v","e","d"," ","A","L","L"," ">>,
    <<" ","d","o","c","u","m","e","n","t","s"," ","f","r","o","m"," ",
      "s","i","n","g","l","e"," ","e","x","p","e","r","i","m","e","n",
      "t",":","\n">>,
    <<"\n","\n","U","s","e","d"," ","c","o","n","t","e","x","t",":","\n">>,
    <<"\n">>
  >>

\* lines 218, 226: the literal segments of a context_summary line
SourceItemLit ==
  <<
    <<"-"," ">>,
    <<"/">>
  >>

\* lines 224, 237
SourcesOpenLit ==
  <<"\n","\n","<","s","o","u","r","c","e","s",">","\n">>

\* lines 224, 237
SourcesCloseLit ==
  <<"\n","<","/","s","o","u","r","c","e","s",">">>

\* lines 301-305: the literal segments of combined_context
CombinedContextLit ==
  <<
    <<"#","#"," ","F","l","o","o","d","N","S"," ","F","r","a","m","e",
      "w","o","r","k"," ","C","o","n","c","e","p","t","s",":","\n">>,
    <<"\n","\n","#","#"," ","S","i","m","u","l","a","t","i","o","n"," ",
      "D","a","t","a",":","\n">>,
    <<>>
  >>

\* line 312
ThinkingLit ==
  <<
    <<"<","t","h","i","n","k","i","n","g",">","\n">>,
    <<"\n","<","/","t","h","i","n","k","i","n","g",">","\n","\n">>
  >>

\* line 422
NodeCountLit ==
  <<
    <<"B","a","s","e","d"," ","o","n"," ","t","h","e"," ","n","o","d",
      "e","_","i","n","f","o",".","c","s","v"," ","f","i","l","e",",",
      " ","t","h","e","r","e"," ","a","r","e"," ">>,
    <<" ","u","n","i","q","u","e"," ","n","o","d","e","s"," ","i","n",
      " ","t","h","e"," ","s","i","m","u","l","a","t","i","o","n",".">>
  >>

\* line 426
NodeApproxLit ==
  <<
    <<"B","a","s","e","d"," ","o","n"," ","t","h","e"," ","n","o","d",
      "e","_","i","n","f","o",".","c","s","v"," ","f","i","l","e",",",
      " ","t","h","e","r","e"," ","a","p","p","e","a","r"," ","t","o",
      " ","b","e"," ","a","p","p","r","o","x","i","m","a","t","e","l",
      "y"," ">>,
    <<" ","n","o","d","e","s"," ","i","n"," ","t","h","e"," ","s","i",
      "m","u","l","a","t","i","o","n",".">>
  >>

\* lines 444, 454
AvgLit ==
  <<
    <<"B","a","s","e","d"," ","o","n"," ">>,
    <<","," ","t","h","e"," ","a","v","e","r","a","g","e"," ","b","a",
      "n","d","w","i","d","t","h"," ","i","s"," ","a","p","p","r","o",
      "x","i","m","a","t","e","l","y"," ">>,
    <<".">>
  >>

\* lines 470, 472
MultiSummaryLit ==
  <<
    <<"I"," ","f","o","u","n","d"," ","r","e","l","e","v","a","n","t",
      " ","i","n","f","o","r","m","a","t","i","o","n"," ","f","r","o",
      "m"," ">>,
    <<" ","e","x","p","e","r","i","m","e","n","t","s"," ","(">>,
    <<")"," ","i","n"," ","t","h","e"," ","f","o","l","l","o","w","i",
      "n","g"," ","f","i","l","e","s",":","\n">>,
    <<"\n","\n","H","o","w","e","v","e","r",","," ","I"," ","c","o","u",
      "l","d","n","'","t"," ","p","r","o","c","e","s","s"," ","t","h",
      "e"," ","c","o","m","p","a","r","a","t","i","v","e"," ","a","n",
      "a","l","y","s","i","s"," ","a","u","t","o","m","a","t","i","c",
      "a","l","l","y","."," ","T","h","e"," ","A","P","I"," ","s","e",
      "r","v","i","c","e"," ","i","s"," ","c","u","r","r","e","n","t",
      "l","y"," ","u","n","a","v","a","i","l","a","b","l","e",".">>,
    <<":"," ">>
  >>

\* line 475
SingleSummaryLit ==
  <<
    <<"I"," ","f","o","u","n","d"," ","r","e","l","e","v","a","n","t",
      " ","i","n","f","o","r","m","a","t","i","o","n"," ","i","n"," ">>,
    <<","," ","b","u","t"," ","c","o","u","l","d","n","'","t"," ","p",
      "r","o","c","e","s","s"," ","i","t"," ","a","u","t","o","m","a",
      "t","i","c","a","l","l","y","."," ","T","h","e"," ","A","P","I",
      " ","s","e","r","v","i","c","e"," ","i","s"," ","c","u","r","r",
      "e","n","t","l","y"," ","u","n","a","v","a","i","l","a","b","l",
      "e",".">>
  >>

\* lines 138, 218 and 462: the name given to a document without experiment_name
UnknownExperiment ==
  <<"U","n","k","n","o","w","n">>

\* lines 139, 218, 463 and 474: the name given to a document without filename
UnknownFilename ==
  <<"u","n","k","n","o","w","n">>

\* lines 93 and 292: the name given to a document without filename
UnknownFile ==
  <<"u","n","k","n","o","w","n"," ","f","i","l","e">>

\* line 243: the message of the outer except of generate_response
SearchErrorMsg ==
  <<"I"," ","h","a","d"," ","t","r","o","u","b","l","e"," ","s","e",
    "a","r","c","h","i","n","g"," ","t","h","r","o","u","g","h"," ",
    "t","h","e"," ","s","i","m","u","l","a","t","i","o","n"," ","d",
    "a","t","a","."," ","P","l","e","a","s","e"," ","t","r","y"," ",
    "a","g","a","i","n"," ","o","r"," ","a","s","k"," ","a","n"," ",
    "a","d","m","i","n","i","s","t","r","a","t","o","r"," ","t","o",
    " ","c","h","e","c","k"," ","t","h","e"," ","v","e","c","t","o",
    "r"," ","s","e","a","r","c","h"," ","c","o","n","f","i","g","u",
    "r","a","t","i","o","n",".">>

(***************************************************************************)
(* Python str and list operations.  A str is the sequence of its           *)
(* characters; the characters are those below U+0100.                      *)
(***************************************************************************)
Min(a, b) == IF a <= b THEN a ELSE b

Max(a, b) == IF a >= b THEN a ELSE b

\* s[:k]
Take(s, k) == SubSeq(s, 1, Min(k, Len(s)))

\* s[k:]
Drop(s, k) == SubSeq(s, Min(k, Len(s)) + 1, Len(s))

\* s[-k:] for k > 0
LastN(s, k) == SubSeq(s, Max(Len(s) - k, 0) + 1, Len(s))

\* sub in s
Contains(s, sub) ==
  \E i \in 0..(Len(s) - Len(sub)) : SubSeq(s, i + 1, i + Len(sub)) = sub

\* s.endswith(suffix)
EndsWith(s, suffix) ==
  /\ Len(suffix) <= Len(s)
  /\ SubSeq(s, Len(s) - Len(suffix) + 1, Len(s)) = suffix

\* s.startswith(prefix)
StartsWith(s, prefix) ==
  /\ Len(prefix) <= Len(s)
  /\ SubSeq(s, 1, Len(prefix)) = prefix

\* the characters below U+0100 that str.lower() changes, and what it makes
\* of them
LowerChar(c) ==
  LET UpperChars ==
        <<"A","B","C","D","E","F","G","H","I","J","K","L","M",
          "N","O","P","Q","R","S","T","U","V","W","X","Y","Z",
          "À","Á","Â","Ã","Ä","Å","Æ","Ç","È","É","Ê","Ë","Ì",
          "Í","Î","Ï","Ð","Ñ","Ò","Ó","Ô","Õ","Ö","Ø","Ù","Ú",
          "Û","Ü","Ý","Þ">>
      LowerChars ==
        <<"a","b","c","d","e","f","g","h","i","j","k","l","m",
          "n","o","p","q","r","s","t","u","v","w","x","y","z",
          "à","á","â","ã","ä","å","æ","ç","è","é","ê","ë","ì",
          "í","î","ï","ð","ñ","ò","ó","ô","õ","ö","ø","ù","ú",
          "û","ü","ý","þ">>
  IN  IF \E i \in 1..Len(UpperChars) : UpperChars[i] = c
      THEN LowerChars[CHOOSE i \in 1..Len(UpperChars) : UpperChars[i] = c]
      ELSE c

\* s.lower()
Lower(s) == [i \in 1..Len(s) |-> LowerChar(s[i])]

\* the characters below U+0100 that str.isspace() holds for: the blank, \t,
\* \n, \r, \f, U+000B, U+001C to U+001F, U+0085 and U+00A0
WhitespaceChars ==
  {" ", "\t", "\n", "\r", "\f", "", "", "", "", "", "", " "}

\* s.strip()
Strip(s) ==
  LET keep == {i \in 1..Len(s) : s[i] \notin WhitespaceChars}
  IN  IF keep = {} THEN <<>>
      ELSE SubSeq(s, CHOOSE i \in keep : \A j \in keep : i <= j,
                     CHOOSE i \in keep : \A j \in keep : i >= j)

\* s.split(c) for a one-character separator c
RECURSIVE Split(_, _)
Split(s, c) ==
  LET hits == {i \in 1..Len(s) : s[i] = c}
  IN  IF hits = {} THEN <<s>>
      ELSE LET k == CHOOSE i \in hits : \A j \in hits : i <= j
           IN  <<SubSeq(s, 1, k - 1)>> \o Split(SubSeq(s, k + 1, Len(s)), c)

\* sep.join(parts)
RECURSIVE Join(_, _)
Join(sep, parts) ==
  IF Len(parts) = 0 THEN <<>>
  ELSE IF Len(parts) = 1 THEN parts[1]
  ELSE parts[1] \o sep \o Join(sep, Tail(parts))

Digits == <<"0","1","2","3","4","5","6","7","8","9">>

IsDigit(c) == \E i \in 1..10 : Digits[i] = c

DigitVal(c) == (CHOOSE i \in 1..10 : Digits[i] = c) - 1

\* str(n) for n >= 0, as the f-strings print len(...) and counts
RECURSIVE IntToStr(_)
IntToStr(n) ==
  IF n < 10 THEN <<Digits[n + 1]>>
  ELSE IntToStr(n \div 10) \o <<Digits[(n % 10) + 1]>>

\* code-point order of the characters that occur in filenames, for sorted()
CharOrder ==
  <<".","0","1","2","3","4","5","6","7","8","9",
    "A","B","C","D","E","F","G","H","I","J","K","L","M",
    "N","O","P","Q","R","S","T","U","V","W","X","Y","Z","_",
    "a","b","c","d","e","f","g","h","i","j","k","l","m",
    "n","o","p","q","r","s","t","u","v","w","x","y","z">>

Ord(c) == CHOOSE i \in 1..Len(CharOrder) : CharOrder[i] = c

\* a < b for two str values
RECURSIVE StrLess(_, _)
StrLess(a, b) ==
  IF Len(b) = 0 THEN FALSE
  ELSE IF Len(a) = 0 THEN TRUE
  ELSE IF a[1] = b[1] THEN StrLess(Tail(a), Tail(b))
  ELSE Ord(a[1]) < Ord(b[1])

\* sorted(S) for a set S of str values
RECURSIVE Sorted(_)
Sorted(S) ==
  IF S = {} THEN <<>>
  ELSE LET m == CHOOSE x \in S : \A y \in S \ {x} : StrLess(x, y)
       IN  <<m>> \o Sorted(S \ {m})

(***************************************************************************)
(* pandas.read_csv(io.StringIO(text), header=None) and the numeric steps   *)
(* fallback_parser applies to the frame, for ASCII text without quote      *)
(* characters, carriage returns, signs, exponents or NA tokens.  A float   *)
(* is held as the decimal it was written as, units / 10^places with no     *)
(* trailing zero, so that equal floats are equal records; the model covers *)
(* the values whose sums, in units of the finest place and times           *)
(* FracScale, stay below 2^31.                                             *)
(***************************************************************************)
FracScale == 100

\* a line the tokenizer skips (skip_blank_lines): empty or only blanks
IsBlankLine(line) == \A i \in 1..Len(line) : line[i] \in {" ", "\t"}

RECURSIVE DropBlankLines(_)
DropBlankLines(lines) ==
  IF Len(lines) = 0 THEN <<>>
  ELSE IF IsBlankLine(lines[1]) THEN DropBlankLines(Tail(lines))
  ELSE <<lines[1]>> \o DropBlankLines(Tail(lines))

\* the records of the text, each one split into its fields
CsvRecords(text) ==
  LET lines == DropBlankLines(Split(text, "\n"))
  IN  [i \in 1..Len(lines) |-> Split(lines[i], ",")]

\* read_csv raises EmptyDataError when there is no record, and ParserError
\* when a record has more fields than the first one
ReadCsvRaises(text) ==
  LET recs == CsvRecords(text)
  IN  \/ Len(recs) = 0
      \/ \E i \in 2..Len(recs) : Len(recs[i]) > Len(recs[1])

\* the frame: every record padded with missing cells (<<>>) to the width
\* of the first record
ReadCsv(text) ==
  LET recs == CsvRecords(text)
      width == Len(recs[1])
  IN  [i \in 1..Len(recs) |->
         [j \in 1..width |-> IF j <= Len(recs[i]) THEN recs[i][j] ELSE <<>>]]

\* float(s) succeeds: digits with at most one decimal point
IsNumStr(s) ==
  /\ \A i \in 1..Len(s) : IsDigit(s[i]) \/ s[i] = "."
  /\ \E i \in 1..Len(s) : IsDigit(s[i])
  /\ Cardinality({i \in 1..Len(s) : s[i] = "."}) <= 1

RECURSIVE DigitsVal(_)
DigitsVal(s) ==
  IF Len(s) = 0 THEN 0
  ELSE 10 * DigitsVal(SubSeq(s, 1, Len(s) - 1)) + DigitVal(s[Len(s)])

\* float(s), for s with IsNumStr(s)
NumVal(s) ==
  LET dots == {i \in 1..Len(s) : s[i] = "."}
      p    == IF dots = {} THEN Len(s) + 1 ELSE CHOOSE i \in dots : TRUE
      \* the fractional digits up to the last one that is not 0
      last == {i \in (p + 1)..Len(s) : s[i] # "0"}
      frac == IF last = {} THEN <<>>
              ELSE SubSeq(s, p + 1, CHOOSE i \in last : \A j \in last : j <= i)
  IN  [units  |-> DigitsVal(SubSeq(s, 1, p - 1) \o frac),
       places |-> Len(frac)]

\* column j of the frame
Column(frame, j) == [i \in 1..Len(frame) |-> frame[i][j]]

\* the column is parsed as numbers when every cell that is present is one
ColIsNumeric(col) == \A i \in 1..Len(col) : col[i] = <<>> \/ IsNumStr(col[i])

\* Series.nunique(): distinct values, missing cells not counted
NUnique(col) ==
  LET present == {i \in 1..Len(col) : col[i] # <<>>}
  IN  IF ColIsNumeric(col)
      THEN Cardinality({NumVal(col[i]) : i \in present})
      ELSE Cardinality({col[i] : i \in present})

\* pd.to_numeric(col, errors='coerce') without its NaN entries
RECURSIVE NumericValues(_)
NumericValues(col) ==
  IF Len(col) = 0 THEN <<>>
  ELSE IF IsNumStr(col[1]) THEN <<NumVal(col[1])>> \o NumericValues(Tail(col))
  ELSE NumericValues(Tail(col))

RECURSIVE Pow(_, _)
Pow(b, k) == IF k = 0 THEN 1 ELSE b * Pow(b, k - 1)

\* the finest place among the values
RECURSIVE Places(_)
Places(vals) ==
  IF Len(vals) = 0 THEN 0 ELSE Max(vals[1].places, Places(Tail(vals)))

\* the sum of the values in units of 10^-places
RECURSIVE Sum(_, _)
Sum(vals, places) ==
  IF Len(vals) = 0 THEN 0
  ELSE vals[1].units * Pow(10, places - vals[1].places) + Sum(Tail(vals), places)

(***************************************************************************)
(* The floats of the mean.  A float is a binary number of 53 significant   *)
(* bits; the ones met here are whole multiples of 2^-FloatScale and are    *)
(* held as that multiple, a natural number written in base Base, lowest    *)
(* digit first, without leading zero.  The order of the additions depends  *)
(* on the interpreter and the libraries installed, which the repository    *)
(* does not pin; it is the parameter method:                               *)
(*   "left"         one addition per value, from the left: sum() up to     *)
(*                  CPython 3.11, Series.mean() with bottleneck, and       *)
(*                  Series.mean() of fewer than 8 values with numpy        *)
(*   "compensated"  sum() from CPython 3.12 on (Neumaier)                  *)
(*   "pairwise"     Series.mean() of 8 to 128 values with numpy            *)
(***************************************************************************)
BaseBits == 15

Base == 32768

\* 2^-90 divides every float from 10^-9 upwards
FloatScale == 6 * BaseBits

RECURSIVE BigNorm(_)
BigNorm(x) ==
  IF Len(x) > 0 /\ x[Len(x)] = 0 THEN BigNorm(SubSeq(x, 1, Len(x) - 1)) ELSE x

BigOfInt(n) == BigNorm(<<n % Base, (n \div Base) % Base, n \div (Base * Base)>>)

\* x * 2^k; no carry runs from digit to digit
BigShift(x, k) ==
  LET m == Pow(2, k % BaseBits)
      Part(i) == IF i \in 1..Len(x) THEN x[i] * m ELSE 0
  IN  BigNorm([i \in 1..(k \div BaseBits) |-> 0] \o
              [i \in 1..(Len(x) + 1) |-> (Part(i) % Base) + (Part(i - 1) \div Base)])

RECURSIVE BigAdd(_, _, _)
BigAdd(x, y, carry) ==
  IF Len(x) = 0 /\ Len(y) = 0 THEN (IF carry = 0 THEN <<>> ELSE <<carry>>)
  ELSE LET s == (IF Len(x) = 0 THEN 0 ELSE x[1]) + (IF Len(y) = 0 THEN 0 ELSE y[1]) + carry
       IN  <<s % Base>> \o BigAdd(IF Len(x) = 0 THEN x ELSE Tail(x),
                                  IF Len(y) = 0 THEN y ELSE Tail(y), s \div Base)

\* quotient and remainder of x by m, for 0 < m < Base
RECURSIVE BigDivMod(_, _)
BigDivMod(x, m) ==
  IF Len(x) = 0 THEN [q |-> <<>>, r |-> 0]
  ELSE LET high == BigDivMod(Tail(x), m)
           t    == high.r * Base + x[1]
       IN  [q |-> BigNorm(<<t \div m>> \o high.q), r |-> t % m]

RECURSIVE BigLess(_, _)
BigLess(x, y) ==
  IF Len(x) # Len(y) THEN Len(x) < Len(y)
  ELSE IF Len(x) = 0 THEN FALSE
  ELSE IF x[Len(x)] # y[Len(y)] THEN x[Len(x)] < y[Len(y)]
  ELSE BigLess(SubSeq(x, 1, Len(x) - 1), SubSeq(y, 1, Len(y) - 1))

\* the float nearest to a number, ties to even.  The number is x when
\* inexact is false and lies between x and x + 1 when it is true; x has
\* more than 53 bits then.
RoundToFloat(x, inexact) ==
  LET Up(kept, dropped, half) ==
        \/ BigLess(half, dropped)
        \/ dropped = half /\ (inexact \/ kept.q[1] % 2 = 1)
      Rounded(kept, drop) ==
        BigShift(IF Up(kept, BigNorm(SubSeq(x, 1, drop \div BaseBits) \o <<kept.r>>),
                       BigShift(<<1>>, drop - 1))
                 THEN BigAdd(kept.q, <<1>>, 0) ELSE kept.q, drop)
      \* drop: the bits of x beyond the 53 a float keeps
      Cut(drop) ==
        IF drop <= 0 THEN x
        ELSE Rounded(BigDivMod(SubSeq(x, (drop \div BaseBits) + 1, Len(x)),
                               Pow(2, drop % BaseBits)), drop)
  IN  Cut(BaseBits * (Len(x) - 1) - 53
          + Cardinality({b \in 0..(BaseBits - 1) : Len(x) > 0 /\ Pow(2, b) <= x[Len(x)]}))

\* x - y - borrow for x >= y + borrow, with leading zeros
RECURSIVE BigSub(_, _, _)
BigSub(x, y, borrow) ==
  IF Len(x) = 0 THEN <<>>
  ELSE LET d == x[1] - (IF Len(y) = 0 THEN 0 ELSE y[1]) - borrow
       IN  <<(d + Base) % Base>> \o BigSub(Tail(x), IF Len(y) = 0 THEN y ELSE Tail(y),
                                           IF d < 0 THEN 1 ELSE 0)

\* x / 10^k as a float; float(s) is DivTens(units * 2^FloatScale, places,
\* FALSE) for the decimal NumVal(s)
RECURSIVE DivTens(_, _, _)
DivTens(x, k, inexact) ==
  IF k = 0 THEN RoundToFloat(x, inexact)
  ELSE LET Step(d) == DivTens(d.q, k - 1, inexact \/ d.r # 0)
       IN  Step(BigDivMod(x, 10))

\* acc + floats[1] + floats[2] + ..., one rounding per addition
RECURSIVE FloatSum(_, _)
FloatSum(floats, acc) ==
  IF Len(floats) = 0 THEN acc
  ELSE FloatSum(Tail(floats), RoundToFloat(BigAdd(acc, floats[1], 0), FALSE))

\* the float loop of sum() from CPython 3.12 on, for floats that are not
\* negative: total is the running sum and c the running compensation, a
\* float held as sign and magnitude.  The code adds (total - t) + x or
\* (x - t) + total to c, the larger of total and x first; both are the
\* error total + x - t of the addition, without rounding.
RECURSIVE CompensatedSum(_, _, _)
CompensatedSum(floats, total, c) ==
  LET Signed(neg, mag) == [neg |-> neg, mag |-> BigNorm(mag)]
      \* a + b
      Plus(a, b) ==
        IF a.neg = b.neg THEN Signed(a.neg, BigAdd(a.mag, b.mag, 0))
        ELSE IF BigLess(a.mag, b.mag) THEN Signed(b.neg, BigSub(b.mag, a.mag, 0))
        ELSE Signed(a.neg, BigSub(a.mag, b.mag, 0))
      Rounded(a) == Signed(a.neg, RoundToFloat(a.mag, FALSE))
      \* t = total + x rounded; the new compensation is c + (total + x - t)
      Step(x, t) ==
        CompensatedSum(Tail(floats), t,
                       Rounded(Plus(c, Plus(Signed(FALSE, BigAdd(total, x, 0)),
                                            Signed(TRUE, t)))))
  IN  IF Len(floats) > 0
      THEN Step(floats[1], RoundToFloat(BigAdd(total, floats[1], 0), FALSE))
      ELSE IF c.mag = <<>> THEN total
      ELSE Rounded(Plus(Signed(FALSE, total), c)).mag

\* sum(values) / len(values) in floats, the sum made by the method
FloatMean(vals, method) ==
  LET n == Len(vals)
      \* numpy adds the values before the last n % 8 in 8 lanes, value i to
      \* lane i % 8, then the lanes two by two, then the last values
      lanes == IF method = "pairwise" /\ n >= 8 THEN n - (n % 8) ELSE 0
      RECURSIVE PairUp(_)
      PairUp(r) ==
        IF Len(r) = 0 THEN <<>>
        ELSE IF Len(r) = 1 THEN r[1]
        ELSE PairUp([j \in 1..(Len(r) \div 2) |->
                       RoundToFloat(BigAdd(r[2 * j - 1], r[2 * j], 0), FALSE)])
      Lane(floats, j) ==
        FloatSum([i \in 1..(lanes \div 8) |-> floats[8 * (i - 1) + j]], <<>>)
      Total(floats) ==
        IF method = "compensated"
        THEN CompensatedSum(floats, <<>>, [neg |-> FALSE, mag |-> <<>>])
        ELSE FloatSum(SubSeq(floats, lanes + 1, n),
                      PairUp([j \in 1..Min(lanes, 8) |-> Lane(floats, j)]))
      Quotient(d) == RoundToFloat(d.q, d.r # 0)
  IN  Quotient(BigDivMod(Total([i \in 1..n |->
                                  DivTens(BigShift(BigOfInt(vals[i].units), FloatScale),
                                          vals[i].places, FALSE)]), n))

\* a / b rounded to the nearest integer; up decides for a / b half-way
\* between two integers
RoundDiv(a, b, up) ==
  LET q == a \div b
      r == a % b
  IN  IF 2 * r > b \/ (2 * r = b /\ up) THEN q + 1 ELSE q

\* f"{x:.2f}" for x = h / FracScale
Format2f(h) ==
  LET c == h % FracScale
  IN  IntToStr(h \div FracScale) \o <<".">> \o <<Digits[(c \div 10) + 1], Digits[(c % 10) + 1]>>

\* f"{mean:.2f}" of the values, the mean computed by the method; the mean
\* of no value is NaN.  The mean of the decimals and the float of the mean
\* round to the same hundredth unless the mean of the decimals is half-way
\* between two hundredths; there the float lies on the half-way point, and
\* ties go to even, or on one side of it.
FormatMean(vals, method) ==
  LET \* the float is above the half-way point (2q + 1) / (2 * FracScale),
      \* or on it with q odd; point is the half-way point rounded down
      Up(q, mean, point) ==
        \/ BigLess(point.q, mean)
        \/ mean = point.q /\ point.r = 0 /\ q % 2 = 1
      HalfWay(q) ==
        BigDivMod(BigShift(BigOfInt(2 * q + 1), FloatScale), 2 * FracScale)
      Rounded(a, b) ==
        RoundDiv(a, b, Up(a \div b, FloatMean(vals, method), HalfWay(a \div b)))
      Scaled(places) ==
        Rounded(FracScale * Sum(vals, places), Len(vals) * Pow(10, places))
  IN  IF Len(vals) = 0 THEN <<"n","a","n">> ELSE Format2f(Scaled(Places(vals)))

\* re.findall(r'[\d.]+', text): the maximal runs of digits and dots
RECURSIVE FindNumbers(_)
FindNumbers(text) ==
  LET isNum(c) == IsDigit(c) \/ c = "."
      starts   == {i \in 1..Len(text) : isNum(text[i])}
  IN  IF starts = {} THEN <<>>
      ELSE LET a == CHOOSE i \in starts : \A j \in starts : i <= j
               stops == {i \in a..Len(text) : ~isNum(text[i])}
               b == IF stops = {} THEN Len(text) + 1
                    ELSE CHOOSE i \in stops : \A j \in stops : i <= j
           IN  <<SubSeq(text, a, b - 1)>> \o FindNumbers(SubSeq(text, b, Len(text)))

\* [float(num) for num in numbers if float(num) > 0], when no float() raises
RECURSIVE PositiveValues(_)
PositiveValues(numbers) ==
  IF Len(numbers) = 0 THEN <<>>
  ELSE IF NumVal(numbers[1]).units > 0
       THEN <<NumVal(numbers[1])>> \o PositiveValues(Tail(numbers))
       ELSE PositiveValues(Tail(numbers))

(***************************************************************************)
(* fallback_parser (lines 397-475).  A Python set has no defined iteration *)
(* order, so wherever the code joins the set experiments_found the order   *)
(* is a parameter (order), chosen by the caller among all permutations.    *)
(* The parameter build says how the installation adds floats: build.sum    *)
(* for sum() and build.mean for Series.mean().                             *)
(***************************************************************************)
\* doc.get(key, default).  A document is a record of its four fields and
\* of the set of keys it has; the field of a key it lacks holds "".
Get(doc, key, default) == IF key \in doc.keys THEN doc[key] ELSE default

\* doc.get("filename", "unknown file") of lines 93 and 292
FileLabel(doc) == Get(doc, "filename", UnknownFile)

NoAnswer == [found |-> FALSE, text |-> <<>>]

Answer(s) == [found |-> TRUE, text |-> s]

\* the set experiments_found of lines 402-406: every document counts
FallbackExperimentsFound(context_docs) ==
  {context_docs[i].experiment_name : i \in 1..Len(context_docs)} \ {<<>>}

\* line 408
FallbackIsMultiExperiment(context_docs) ==
  Cardinality(FallbackExperimentsFound(context_docs)) > 1

\* the sequences that list every element of the set S once
Orders(S) ==
  {o \in [1..Cardinality(S) -> S] : \A x \in S : \E i \in 1..Cardinality(S) : o[i] = x}

\* line 411
NodeCountIntent(query_lower) ==
  /\ Contains(query_lower, KwNode)
  /\ Contains(query_lower, KwCount) \/ Contains(query_lower, KwHowMany)

\* mutant of NodeCountOfDoc: the first row is read as a header and not counted
NodeCountOfDoc_HeaderRow(text) ==
  IF ~ReadCsvRaises(text)
  THEN NodeCountLit[1] \o IntToStr(NUnique(Tail(Column(ReadCsv(text), 1)))) \o NodeCountLit[2]
  ELSE NodeApproxLit[1] \o IntToStr(Len(Split(Strip(text), "\n"))) \o NodeApproxLit[2]

\* lines 415-426 for one document named node_info.csv with non-empty text
NodeCountOfDoc(text) ==
  IF ~ReadCsvRaises(text)
  THEN NodeCountLit[1] \o IntToStr(NUnique(Column(ReadCsv(text), 1))) \o NodeCountLit[2]
  ELSE NodeApproxLit[1] \o IntToStr(Len(Split(Strip(text), "\n"))) \o NodeApproxLit[2]

\* lines 413-426: the first node_info.csv document with text answers
RECURSIVE NodeCountAnswer(_)
NodeCountAnswer(context_docs) ==
  IF Len(context_docs) = 0 THEN NoAnswer
  ELSE LET doc == context_docs[1]
       IN  IF doc.filename = NodeInfoCsv /\ doc.text # <<>>
           THEN Answer(NodeCountOfDoc(doc.text))
           ELSE NodeCountAnswer(Tail(context_docs))

\* line 428
BandwidthAverageIntent(query_lower) ==
  /\ Contains(query_lower, KwBandwidth)
  /\ Contains(query_lower, KwAverage)

AverageText(filename, formatted) ==
  AvgLit[1] \o filename \o AvgLit[2] \o formatted \o AvgLit[3]

\* lines 446-456: the regex path, taken when read_csv raised
RegexAverageOfDoc(doc, build) ==
  LET numbers == FindNumbers(doc.text)
  IN  IF Len(numbers) = 0 THEN NoAnswer
      ELSE IF \E i \in 1..Len(numbers) : ~IsNumStr(numbers[i]) THEN NoAnswer
      ELSE LET values == PositiveValues(numbers)
           IN  IF Len(values) = 0 THEN NoAnswer
               ELSE Answer(AverageText(doc.filename, FormatMean(values, build.sum)))

\* lines 432-456 for one document whose filename contains "bandwidth"
BandwidthAverageOfDoc(doc, build) ==
  IF ~ReadCsvRaises(doc.text)
  THEN LET frame == ReadCsv(doc.text)
           bandwidth_values == NumericValues(Column(frame, Len(frame[1])))
       IN  Answer(AverageText(doc.filename, FormatMean(bandwidth_values, build.mean)))
  ELSE RegexAverageOfDoc(doc, build)

\* lines 430-456: the documents are tried in pool order until one answers
RECURSIVE BandwidthAverageAnswer(_, _)
BandwidthAverageAnswer(context_docs, build) ==
  IF Len(context_docs) = 0 THEN NoAnswer
  ELSE LET doc == context_docs[1]
           OrNext(here) ==
             IF here.found THEN here ELSE BandwidthAverageAnswer(Tail(context_docs), build)
       IN  OrNext(IF Contains(Lower(doc.filename), KwBandwidth) /\ doc.text # <<>>
                  THEN BandwidthAverageOfDoc(doc, build)
                  ELSE NoAnswer)

\* the keys of a dict filled in the order of names, in insertion order
RECURSIVE FirstSeen(_, _)
FirstSeen(names, seen) ==
  IF Len(names) = 0 THEN <<>>
  ELSE IF names[1] \in seen THEN FirstSeen(Tail(names), seen)
  ELSE <<names[1]>> \o FirstSeen(Tail(names), seen \cup {names[1]})

\* doc.get("experiment_name", "Unknown") of lines 138, 218 and 462
ExpNameOf(doc) == Get(doc, "experiment_name", UnknownExperiment)

\* doc.get("filename", "unknown") of lines 139, 218, 463 and 474
FilenameOf(doc) == Get(doc, "filename", UnknownFilename)

ExperimentNames(context_docs) ==
  [i \in 1..Len(context_docs) |-> ExpNameOf(context_docs[i])]

Filenames(context_docs) ==
  [i \in 1..Len(context_docs) |-> FilenameOf(context_docs[i])]

\* the filenames of the documents of one experiment, in pool order
RECURSIVE FilesOf(_, _)
FilesOf(context_docs, name) ==
  IF Len(context_docs) = 0 THEN <<>>
  ELSE (IF ExpNameOf(context_docs[1]) = name
        THEN <<FilenameOf(context_docs[1])>> ELSE <<>>)
       \o FilesOf(Tail(context_docs), name)

\* lines 459-472
GeneralSummaryMulti(context_docs, order) ==
  LET keys == FirstSeen(ExperimentNames(context_docs), {})
      summary == [k \in 1..Len(keys) |->
                    keys[k] \o MultiSummaryLit[5] \o Join(CommaSp, FilesOf(context_docs, keys[k]))]
  IN  MultiSummaryLit[1] \o IntToStr(Len(order)) \o MultiSummaryLit[2]
        \o Join(CommaSp, order) \o MultiSummaryLit[3]
        \o Join(<<"\n">>, summary) \o MultiSummaryLit[4]

\* mutant of GeneralSummarySingle: the summary does not list the filenames
GeneralSummarySingle_NoNames(context_docs) ==
  SingleSummaryLit[1] \o SingleSummaryLit[2]

\* lines 473-475
GeneralSummarySingle(context_docs) ==
  SingleSummaryLit[1] \o Join(CommaSp, Filenames(context_docs)) \o SingleSummaryLit[2]

\* lines 458-475
GeneralSummary(context_docs, order) ==
  IF FallbackIsMultiExperiment(context_docs)
  THEN GeneralSummaryMulti(context_docs, order)
  ELSE GeneralSummarySingle(context_docs)

\* lines 410-456: the answer of the specialised paths, if any
SpecialisedAnswer(query, context_docs, build) ==
  LET query_lower == Lower(query)
  IN  IF NodeCountIntent(query_lower) THEN NodeCountAnswer(context_docs)
      ELSE IF BandwidthAverageIntent(query_lower)
      THEN BandwidthAverageAnswer(context_docs, build)
      ELSE NoAnswer

\* fallback_parser(query, context_docs); order lists experiments_found
fallback_parser(query, context_docs, order, build) ==
  LET OrSummary(special) ==
        IF special.found THEN special.text ELSE GeneralSummary(context_docs, order)
  IN  OrSummary(SpecialisedAnswer(query, context_docs, build))

(***************************************************************************)
(* generate_response and its helpers (lines 19-317).                       *)
(***************************************************************************)
\* the states of the framework file that get_framework_context meets
FrameworkFileText ==
  <<"#"," ","F","l","o","o","d","N","S","\n","N","o","d","e",","," ","L","i","n","k">>

FrameworkFiles ==
  { [readable |-> FALSE, content |-> <<>>],
    [readable |-> TRUE,  content |-> FrameworkFileText],
    [readable |-> TRUE,  content |-> <<>>] }

\* lines 19-28: the content of the file, or the substitute when open/read raises
get_framework_context(file) ==
  IF file.readable THEN file.content ELSE FrameworkSubstitute

\* lines 246-267
is_bandwidth_query(query) ==
  LET query_lower == Lower(query)
      bandwidth_match == \E kw \in bandwidth_keywords : Contains(query_lower, kw)
      file_match == \E kw \in file_keywords : Contains(query_lower, kw)
      stat_match == \E kw \in stat_keywords : Contains(query_lower, kw)
  IN  (bandwidth_match /\ (file_match \/ stat_match)) \/ (file_match /\ stat_match)

\* mutant of IsReasoningQuery: the phrase "step by step" is missing from the list
IsReasoningQuery_NoStepByStep(query) ==
  \E phrase \in ReasoningPhrases \ {KwStepByStep} : Contains(Lower(query), phrase)

\* the condition of line 69
IsReasoningQuery(query) ==
  \E phrase \in ReasoningPhrases : Contains(Lower(query), phrase)

\* lines 74-85 and 276-287: the multi-experiment pool if it is not empty,
\* else the single-experiment pool (empty when both are)
SelectDocs(multi, single) == IF Len(multi) > 0 THEN multi ELSE single

ManyDocs == 50

SomeDocs == 20

ShortExcerpt == 400

MediumExcerpt == 600

FullExcerpt == 1000

CsvMinLines == 10

CsvHeadLines == 5

CsvTailLines == 3

ReasoningExcerpt == 1500

PreviewLen == 100

\* mutant of text_length: the thresholds are inclusive
text_length_Inclusive(n_docs) ==
  IF n_docs >= ManyDocs THEN ShortExcerpt
  ELSE IF n_docs >= SomeDocs THEN MediumExcerpt
  ELSE FullExcerpt

\* lines 103-109
text_length(n_docs) ==
  IF n_docs > ManyDocs THEN ShortExcerpt
  ELSE IF n_docs > SomeDocs THEN MediumExcerpt
  ELSE FullExcerpt

\* mutant of excerpt: the line-count test of line 115 is missing
excerpt_AnyCsv(doc, n_docs) ==
  LET lines == Split(doc.text, "\n")
  IN  IF /\ EndsWith(FileLabel(doc), DotCsv)
         /\ \E i \in 1..Len(doc.text) : doc.text[i] = "\n"
      THEN Join(<<"\n">>, Take(lines, CsvHeadLines) \o <<Ellipsis3>> \o LastN(lines, CsvTailLines))
      ELSE Take(doc.text, text_length(n_docs))

\* lines 112-117: the excerpt of a document that has an experiment_name
excerpt(doc, n_docs) ==
  LET lines == Split(doc.text, "\n")
  IN  IF /\ EndsWith(FileLabel(doc), DotCsv)
         /\ \E i \in 1..Len(doc.text) : doc.text[i] = "\n"
         /\ Len(lines) > CsvMinLines
      THEN Join(<<"\n">>, Take(lines, CsvHeadLines) \o <<Ellipsis3>> \o LastN(lines, CsvTailLines))
      ELSE Take(doc.text, text_length(n_docs))

\* mutant of ContextEntry: the excerpt of a document with an experiment_name
\* ignores the pool size
ContextEntry_AlwaysFull(doc, n_docs) ==
  IF doc.experiment_name # <<>>
  THEN ContextLit[1] \o doc.experiment_name \o ContextLit[2] \o FileLabel(doc)
         \o ContextLit[3] \o doc.experiment_params \o ContextLit[4]
         \o Take(doc.text, FullExcerpt) \o Ellipsis3
  ELSE ContextLit[1] \o FileLabel(doc) \o ContextLit[5] \o Take(doc.text, FullExcerpt) \o Ellipsis3

\* lines 99-122: the context entry of a document with non-empty text
ContextEntry(doc, n_docs) ==
  IF doc.experiment_name # <<>>
  THEN ContextLit[1] \o doc.experiment_name \o ContextLit[2] \o FileLabel(doc)
         \o ContextLit[3] \o doc.experiment_params \o ContextLit[4]
         \o excerpt(doc, n_docs) \o Ellipsis3
  ELSE ContextLit[1] \o FileLabel(doc) \o ContextLit[5] \o Take(doc.text, FullExcerpt) \o Ellipsis3

\* the documents the loop of lines 92-123 includes: those with non-empty text
RECURSIVE Included(_)
Included(context_docs) ==
  IF Len(context_docs) = 0 THEN <<>>
  ELSE (IF context_docs[1].text # <<>> THEN <<context_docs[1]>> ELSE <<>>)
       \o Included(Tail(context_docs))

\* the list filenames after the loop of lines 92-123
IncludedFilenames(context_docs) ==
  LET inc == Included(context_docs)
  IN  [k \in 1..Len(inc) |-> FileLabel(inc[k])]

\* the list contexts after the loop of lines 92-123
Contexts(context_docs) ==
  LET inc == Included(context_docs)
  IN  [k \in 1..Len(inc) |-> ContextEntry(inc[k], Len(context_docs))]

\* the set experiments_found after the loop of lines 92-123: only
\* documents with non-empty text reach line 101
ExperimentsFound(context_docs) ==
  {context_docs[i].experiment_name :
     i \in {j \in 1..Len(context_docs) : context_docs[j].text # <<>>}} \ {<<>>}

\* the experiment_params of the first document of an experiment (lines
\* 140-144)
ParamsOf(context_docs, name) ==
  context_docs[CHOOSE i \in 1..Len(context_docs) :
                 /\ ExpNameOf(context_docs[i]) = name
                 /\ \A j \in 1..(i - 1) : ExpNameOf(context_docs[j]) # name
              ].experiment_params

\* lines 134-151: one line per experiment, in first-seen order
ExperimentSummary(context_docs) ==
  LET keys == FirstSeen(ExperimentNames(context_docs), {})
      files(k) == {FilenameOf(context_docs[i]) :
                     i \in {j \in 1..Len(context_docs) :
                              ExpNameOf(context_docs[j]) = keys[k]}}
  IN  [k \in 1..Len(keys) |->
         SummaryLit[1] \o keys[k] \o SummaryLit[2] \o ParamsOf(context_docs, keys[k])
           \o SummaryLit[3] \o IntToStr(Cardinality(files(k))) \o SummaryLit[4]
           \o Join(CommaSp, Sorted(files(k)))]

\* lines 153-180
PromptMulti(query, context_docs, order, framework) ==
  PromptMultiLit[1] \o IntToStr(Len(order)) \o PromptMultiLit[2] \o Join(CommaSp, order)
    \o PromptMultiLit[3] \o IntToStr(Len(context_docs)) \o PromptMultiLit[4]
    \o Join(<<"\n">>, ExperimentSummary(context_docs)) \o PromptMultiLit[5]
    \o framework \o PromptMultiLit[6] \o IntToStr(Len(context_docs)) \o PromptMultiLit[7]
    \o Join(<<"\n","\n">>, Contexts(context_docs)) \o PromptMultiLit[8] \o query
    \o PromptMultiLit[9]

\* lines 182-205
PromptSingle(query, context_docs, framework) ==
  PromptSingleLit[1] \o IntToStr(Len(context_docs)) \o PromptSingleLit[2] \o framework
    \o PromptSingleLit[3] \o IntToStr(Len(context_docs)) \o PromptSingleLit[4]
    \o Join(<<"\n","\n">>, Contexts(context_docs)) \o PromptSingleLit[5] \o query
    \o PromptSingleLit[6]

\* line 129
IsMultiExperiment(context_docs) == Cardinality(ExperimentsFound(context_docs)) > 1

\* lines 131-205
BuildPrompt(query, context_docs, order, framework) ==
  IF IsMultiExperiment(context_docs)
  THEN PromptMulti(query, context_docs, order, framework)
  ELSE PromptSingle(query, context_docs, framework)

\* lines 218-222
SourcesMulti(context_docs, order) ==
  LET context_summary ==
        Join(<<"\n">>, [i \in 1..Len(context_docs) |->
               SourceItemLit[1] \o ExpNameOf(context_docs[i]) \o SourceItemLit[2]
                 \o FilenameOf(context_docs[i])])
  IN  SourcesMultiLit[1] \o IntToStr(Len(context_docs)) \o SourcesMultiLit[2]
        \o IntToStr(Len(order)) \o SourcesMultiLit[3] \o Join(CommaSp, order)
        \o SourcesMultiLit[4] \o context_summary \o SourcesMultiLit[5]

\* mutant of SourcesSingle: the block lists a sample, the first filename only
SourcesSingle_FirstOnly(context_docs) ==
  LET filenames == Take(IncludedFilenames(context_docs), 1)
      context_summary == Join(<<"\n">>, [i \in 1..Len(filenames) |-> SourceItemLit[1] \o filenames[i]])
      context_preview ==
        Join(<<"\n">>, [i \in 1..Len(context_docs) |->
               Take(context_docs[i].text, PreviewLen) \o Ellipsis3])
  IN  SourcesSingleLit[1] \o IntToStr(Len(context_docs)) \o SourcesSingleLit[2]
        \o context_summary \o SourcesSingleLit[3] \o context_preview \o SourcesSingleLit[4]

\* lines 226-235; filenames is the list built at line 123
SourcesSingle(context_docs) ==
  LET filenames == IncludedFilenames(context_docs)
      context_summary == Join(<<"\n">>, [i \in 1..Len(filenames) |-> SourceItemLit[1] \o filenames[i]])
      context_preview ==
        Join(<<"\n">>, [i \in 1..Len(context_docs) |->
               Take(context_docs[i].text, PreviewLen) \o Ellipsis3])
  IN  SourcesSingleLit[1] \o IntToStr(Len(context_docs)) \o SourcesSingleLit[2]
        \o context_summary \o SourcesSingleLit[3] \o context_preview \o SourcesSingleLit[4]

\* lines 216-237: the answer returned for a response of the backend
Compose(response, context_docs, order) ==
  response \o SourcesOpenLit
    \o (IF IsMultiExperiment(context_docs)
        THEN SourcesMulti(context_docs, order)
        ELSE SourcesSingle(context_docs))
    \o SourcesCloseLit

\* lines 46-47: the text generate_with_ollama returns for the JSON field
generate_with_ollama(response_field) == Strip(response_field)

\* lines 385-387: the text generate_with_api returns for the service's text
generate_with_api(prompt, response) ==
  Strip(IF Len(response) > Len(prompt) THEN Drop(response, Len(prompt)) ELSE response)

\* lines 389-395: what generate_with_api returns when the call raises
generate_with_api_failed(query, context_docs, order, build) ==
  IF Len(context_docs) > 0 /\ Len(query) > 0
  THEN fallback_parser(query, context_docs, order, build)
  ELSE ApiErrorMsg

\* lines 289-305
CombinedContext(context_docs, framework) ==
  LET inc == Included(context_docs)
      contexts == [k \in 1..Len(inc) |->
                     ContextLit[1] \o FileLabel(inc[k]) \o ContextLit[5]
                       \o Take(inc[k].text, ReasoningExcerpt) \o Ellipsis3]
  IN  CombinedContextLit[1] \o framework \o CombinedContextLit[2]
        \o Join(<<"\n","\n">>, contexts) \o CombinedContextLit[3]

\* line 312
FormatReasoning(reasoning, result_text) ==
  ThinkingLit[1] \o reasoning \o ThinkingLit[2] \o result_text

(***************************************************************************)
(* Inputs: queries, documents, pools and the texts of the collaborators.   *)
(***************************************************************************)
\* the queries the caller sends
QGeneral ==
  <<"W","h","a","t"," ","l","i","n","k","s"," ","a","r","e"," ","c",
    "o","n","g","e","s","t","e","d","?">>

QNodeCount ==
  <<"H","o","w"," ","m","a","n","y"," ","n","o","d","e","s"," ","a",
    "r","e"," ","t","h","e","r","e","?">>

QAvgBandwidth ==
  <<"W","h","a","t"," ","i","s"," ","t","h","e"," ","A","v","e","r",
    "a","g","e"," ","B","a","n","d","w","i","d","t","h","?">>

QStepAvgBandwidth ==
  <<"S","t","e","p"," ","b","y"," ","S","t","e","p",":"," ","a","v",
    "e","r","a","g","e"," ","b","a","n","d","w","i","d","t","h">>

QShowWork ==
  <<"S","h","o","w"," ","y","o","u","r"," ","w","o","r","k">>

QNodeAvgBandwidth ==
  <<"a","v","e","r","a","g","e"," ","b","a","n","d","w","i","d","t",
    "h"," ","p","e","r"," ","n","o","d","e",","," ","h","o","w"," ",
    "m","a","n","y","?">>

QEmpty ==
  <<>>

\* a run directory; no run directory (None) is the empty value, equally falsy
RunDir ==
  <<"r","u","n","s","/","1">>

\* filenames
FlowBandwidthCsv ==
  <<"f","l","o","w","_","b","a","n","d","w","i","d","t","h",".","c",
    "s","v">>

FlowBandwidthUpper ==
  <<"F","l","o","w","_","B","a","n","d","w","i","d","t","h",".","C",
    "S","V">>

RunLog ==
  <<"r","u","n",".","l","o","g">>

NotesTxt ==
  <<"n","o","t","e","s",".","t","x","t">>

\* texts
TNodes ==
  <<"A",",","x","\n","A",",","y","\n","B",",","z","\n","C",",","w">>

TBandwidth ==
  <<"f",",","1","0","\n","g",",","2","0","\n","h",",","3","0">>

TNonNumeric ==
  <<"f",",","a","\n","g",",","b">>

TRaggedNumbers ==
  <<"1","\n","2",",","3">>

TRaggedLetters ==
  <<"a","\n","b",",","c">>

TRaggedZeros ==
  <<"0","\n","0",",","0">>

TRaggedDot ==
  <<"a","\n",".",",","b">>

TNewline ==
  <<"\n">>

TCsvElevenLines ==
  <<"r","1",",","1","0","\n","r","2",",","2","0","\n","r","3",",","3",
    "0","\n","r","4",",","4","0","\n","r","5",",","5","0","\n","r","6",
    ",","6","0","\n","r","7",",","7","0","\n","r","8",",","8","0","\n",
    "r","9",",","9","0","\n","r","1","0",",","1","0","0","\n","r","1",
    "1",",","1","1","0">>

\* a node file whose first row is unlike every other row
TNodesHeader ==
  <<"i","d",",","k","i","n","d","\n","n","1",",","h","\n","n","1",",",
    "s">>

\* a node file with numeric identifiers and a final newline
TNodeIds ==
  <<"1",",","h","\n","1",",","s","\n","2",",","h","\n">>

\* a ragged text whose positive numbers have a mean half-way between two
\* hundredths, 0.015, which no float holds
TRaggedTie ==
  <<"0","\n","0",".","0","1",",","0",".","0","2">>

\* a mean half-way between two hundredths that a float holds
TEighth ==
  <<"f",",","0",".","1","2","5">>

\* values with three fractional digits
TThousandths ==
  <<"f",",","0",".","0","0","1","\n","f",",","2">>

\* a ragged text whose sum the two sum() of CPython round differently
TRaggedSum ==
  <<"1",".","7","4","9","\n","2",".","5","4","5",",","1",".","3","0","1">>

\* eight rows whose sum numpy and bottleneck round differently
TEightRows ==
  <<"4",".","9","\n","7",".","1","\n","4",".","5","\n","8",".","8","\n">>
    \o <<"6",".","9","\n","6",".","3","\n","9",".","9","\n","0",".","2">>

TShort ==
  <<"o","k">>

\* experiment names and their parameter strings
ExpA ==
  <<"e","x","p","A">>

ExpB ==
  <<"e","x","p","B">>

ParamsA ==
  <<"2",",","4",",","8",",","E","C","M","P",",","7">>

ParamsB ==
  <<"2",",","4",",","8",",","K","S","P",",","7">>

\* texts the collaborators return
AnalysisText ==
  <<"A","v","e","r","a","g","e"," ","b","a","n","d","w","i","d","t",
    "h",":"," ","2","0",".","0","0">>

LocalResponseField ==
  <<"\f"," ","T","h","e"," ","r","i","n","g"," ","h","a","s"," ","3"," ",
    "n","o","d","e","s",".","\n","">>

ApiCompletion ==
  <<" ","3"," ","n","o","d","e","s","."," ">>

\* a completion the service returns without the prompt in front
ApiAnswer ==
  <<"T","h","e"," ","r","i","n","g"," ","h","a","s"," ","3"," ","n",
    "o","d","e","s"," ","a","n","d"," ","3"," ","l","i","n","k","s",
    ".">>

ThinkReasoning ==
  <<"1","."," ","r","e","a","d"," ","n","o","d","e","_","i","n","f",
    "o",".","c","s","v">>

ThinkResult ==
  <<"3"," ","n","o","d","e","s">>

ThinkError ==
  <<"t","i","m","e","o","u","t">>

\* str(e) of the exception the import of line 273 raises
ImportError ==
  <<"N","o"," ","m","o","d","u","l","e"," ","n","a","m","e","d"," ","'","l","l","m",".","t","h","i","n","k","_","s","t","e","p","_","b","y","_","s","t","e","p","'">>

\* str(e) of the exception a retrieval function raises
RetrievalError ==
  <<"d","b"," ","d","o","w","n">>

\* values of the environment variable USE_LOCAL_MODEL
EnvTrue ==
  <<"t","r","u","e">>

EnvTrueCapital ==
  <<"T","r","u","e">>

EnvFalse ==
  <<"f","a","l","s","e">>

TLongLen == 1100

\* a text longer than every excerpt length, without newline
TLong == [i \in 1..TLongLen |-> "x"]

QuerySet ==
  {QGeneral, QNodeCount, QAvgBandwidth, QStepAvgBandwidth, QShowWork,
   QNodeAvgBandwidth, QEmpty}

RunDirSet == {<<>>, RunDir}

EnvValues == {EnvTrue, EnvTrueCapital, EnvFalse}

\* how the installation adds floats: sum() from the left (up to CPython
\* 3.11) or compensated (from 3.12 on), Series.mean() from the left
\* (bottleneck) or pairwise (numpy)
Builds == [sum : {"left", "compensated"}, mean : {"left", "pairwise"}]

\* a document without experiment: the dict has no experiment keys, and
\* doc.get(key, "") gives the empty string
Doc(filename, text) ==
  [filename |-> filename, text |-> text,
   experiment_name |-> <<>>, experiment_params |-> <<>>,
   keys |-> {"filename", "text"}]

CoreDocs ==
  { Doc(NodeInfoCsv, TNodes), Doc(FlowBandwidthCsv, TBandwidth),
    Doc(FlowBandwidthCsv, TNonNumeric), Doc(RunLog, TLong), Doc(NotesTxt, <<>>) }

ExtraDocs ==
  { Doc(FlowBandwidthUpper, TRaggedNumbers), Doc(FlowBandwidthCsv, TRaggedLetters),
    Doc(FlowBandwidthCsv, TRaggedZeros), Doc(FlowBandwidthCsv, TRaggedDot),
    Doc(NodeInfoCsv, TNewline), Doc(FlowBandwidthCsv, TCsvElevenLines),
    Doc(NodeInfoCsv, TNodesHeader), Doc(NodeInfoCsv, TNodeIds),
    Doc(FlowBandwidthCsv, TRaggedTie), Doc(FlowBandwidthCsv, TEighth),
    Doc(FlowBandwidthCsv, TThousandths), Doc(FlowBandwidthCsv, TRaggedSum),
    Doc(FlowBandwidthCsv, TEightRows) }

MaxPoolLen == 2

MaxExtra == 1

\* every sequence of core documents up to MaxPoolLen
RECURSIVE CorePools(_)
CorePools(n) ==
  IF n = 0 THEN {<<>>}
  ELSE LET shorter == CorePools(n - 1)
       IN  shorter \cup {Append(p, d) : p \in {q \in shorter : Len(q) = n - 1}, d \in CoreDocs}

\* an extra document alone, and before the numeric bandwidth document; and
\* a pool of three documents whose last one has no text
ExtraPools ==
  {<<d>> : d \in ExtraDocs}
    \cup {<<d, Doc(FlowBandwidthCsv, TBandwidth)>> : d \in ExtraDocs}
    \cup {<<Doc(NodeInfoCsv, TNodes), Doc(FlowBandwidthCsv, TBandwidth), Doc(NotesTxt, <<>>)>>}

\* pools around the thresholds of text_length: one long document followed
\* by short ones
BigSizes ==
  {SomeDocs + k : k \in 0..MaxExtra} \cup {ManyDocs + k : k \in 0..MaxExtra}

BigPools ==
  {[i \in 1..n |-> IF i = 1 THEN d ELSE Doc(NotesTxt, TShort)] :
     n \in BigSizes, d \in {Doc(RunLog, TLong), Doc(FlowBandwidthCsv, TCsvElevenLines)}}

UntaggedPools == CorePools(MaxPoolLen) \cup ExtraPools \cup BigPools

\* the documents of a multi-experiment retrieval carry experiment_name and
\* experiment_params: all of one experiment, or alternating between two
ExperimentKeys == {"experiment_name", "experiment_params"}

TagSame(pool) ==
  [i \in 1..Len(pool) |->
     [pool[i] EXCEPT !.experiment_name = ExpA, !.experiment_params = ParamsA,
                     !.keys = @ \cup ExperimentKeys]]

TagAlternate(pool) ==
  [i \in 1..Len(pool) |->
     [pool[i] EXCEPT !.experiment_name = IF i % 2 = 1 THEN ExpA ELSE ExpB,
                     !.experiment_params = IF i % 2 = 1 THEN ParamsA ELSE ParamsB,
                     !.keys = @ \cup ExperimentKeys]]

TaggedPools ==
  {TagSame(p) : p \in UntaggedPools \ {<<>>}} \cup {TagAlternate(p) : p \in UntaggedPools \ {<<>>}}

\* what the two retrieval functions return: <<multi, single>>
RetrievalSet ==
  {<<p, <<>>>> : p \in TaggedPools} \cup {<<<<>>, p>> : p \in UntaggedPools}

(***************************************************************************)
(* re_run_experiment (src/routes/experiment_details.py, lines 31-90) and   *)
(* the two other handlers of the page that write the experiment record.    *)
(* The record is the document of experiments_collection with the given     *)
(* simulation_id.  Every database operation is one atomic step.            *)
(***************************************************************************)
MaxReRuns == 2

\* stored params that do not unpack into five fields (line 50)
ParamsFewFields ==
  <<"2",",","4",",","8">>

\* stored params whose seed is no integer (line 58)
ParamsBadSeed ==
  <<"2",",","4",",","8",",","E","C","M","P",",","x">>

\* stored params whose seed int() accepts with a blank and a sign (line 58)
ParamsSignedSeed ==
  <<"2",",","4",",","8",",","E","C","M","P",","," ","-","7">>

SimulationName ==
  <<"r","i","n","g">>

SimulationRenamed ==
  <<"r","i","n","g","-","2">>

StoredParams == {ParamsA, ParamsFewFields, ParamsBadSeed, ParamsSignedSeed}

\* what the edit form can save (line 96): five fields joined by commas
FormParams == {ParamsA, ParamsBadSeed}

FormNames == {SimulationName, SimulationRenamed}

\* CPython's limit on the digits of a decimal literal that int() converts
IntMaxStrDigits == 4300

\* int(s) succeeds.  int() skips the whitespace around the literal, except
\* U+001C to U+001F, which str.strip() removes and int() rejects; the
\* literal is an optional sign and digits, single underscores between them
IsIntStr(s) ==
  LET blanks == WhitespaceChars \ {"", "", "", ""}
      keep   == {i \in 1..Len(s) : s[i] \notin blanks}
      body   == IF keep = {} THEN <<>>
                ELSE SubSeq(s, CHOOSE i \in keep : \A j \in keep : i <= j,
                               CHOOSE i \in keep : \A j \in keep : i >= j)
      d      == IF Len(body) > 0 /\ body[1] \in {"+", "-"} THEN Drop(body, 1) ELSE body
  IN  /\ Len(d) > 0
      /\ \A i \in 1..Len(d) : IsDigit(d[i]) \/ d[i] = "_"
      /\ d[1] # "_"
      /\ d[Len(d)] # "_"
      /\ \A i \in 1..(Len(d) - 1) : ~(d[i] = "_" /\ d[i + 1] = "_")
      /\ Cardinality({i \in 1..Len(d) : IsDigit(d[i])}) <= IntMaxStrDigits

\* lines 50 and 58-60: the params unpack into five fields and the three
\* numbers among them convert
ParamsWellFormed(params) ==
  LET fields == Split(params, ",")
  IN  /\ Len(fields) = 5
      /\ IsIntStr(fields[2])
      /\ IsIntStr(fields[3])
      /\ IsIntStr(fields[5])

\* the document; a deleted document has present = FALSE
NoExperiment ==
  [present |-> FALSE, state |-> "", params |-> <<>>, simulation_name |-> <<>>,
   end_time |-> "", error |-> ""]

StoredExperiment(state, params) ==
  [present |-> TRUE, state |-> state, params |-> params,
   simulation_name |-> SimulationName, end_time |-> "first run",
   error |-> IF state = "Error" THEN "first run failed" ELSE ""]

\* update_one with $set: nothing happens when no document matches
UpdateOne(doc, fields) ==
  LET Set(k) == IF k \in DOMAIN fields THEN fields[k] ELSE doc[k]
  IN  IF doc.present
      THEN [present |-> TRUE, state |-> Set("state"), params |-> Set("params"),
            simulation_name |-> Set("simulation_name"), end_time |-> Set("end_time"),
            error |-> Set("error")]
      ELSE doc

ReRuns == 1..MaxReRuns

(***************************************************************************)
(* The state machine: one call of generate_response(query, run_dir), or    *)
(* one direct call of fallback_parser(query, pool).  The calls to the      *)
(* collaborators (bandwidth analysis, think_step_by_step, the two          *)
(* generation backends) are the points where the call waits; each of them  *)
(* returns or raises.  The two retrieval functions return the pools        *)
(* multi_docs and single_docs, or raise.                                   *)
(***************************************************************************)
VARIABLES
  query,                \* argument of the call
  run_dir,              \* argument of the call (<<>> when None)
  multi_docs,           \* what get_all_multi_experiment_documents returns
  single_docs,          \* what get_all_single_experiment_documents returns
  framework_file,       \* the state of floodns/doc/framework.md at import
  FRAMEWORK_CONTEXT,    \* module global set at import (line 31)
  pc,                   \* position of the call
  branch,               \* which function produces the answer
  context_docs,         \* local of generate_response / the reasoning function
  contexts,             \* local list of context entries (lines 88-123)
  filenames,            \* local list of filenames (line 123)
  experiments_found,    \* local set, in its iteration order
  is_multi_experiment,  \* local flag (line 129)
  prompt,               \* local prompt (lines 153-205), combined context (301-305)
  USE_LOCAL_MODEL,      \* the environment variable while the call generates;
                        \* only line 209 reads it
  calls,                \* the calls made to collaborators, with their outcome
  response,             \* local response of the backend (lines 212-214)
  result,               \* the value the call returns
  experiment,           \* the experiment document in the database
  runs                  \* the calls of re_run_experiment and their threads

vars ==
  <<query, run_dir, multi_docs, single_docs, framework_file, FRAMEWORK_CONTEXT, pc, branch,
    context_docs, contexts, filenames, experiments_found, is_multi_experiment,
    prompt, USE_LOCAL_MODEL, calls, response, result, experiment, runs>>

\* the experiment page: generate_response never reads or writes it
page == <<experiment, runs>>

\* what a call of generate_response leaves as it is
inputs ==
  <<query, run_dir, multi_docs, single_docs, framework_file, FRAMEWORK_CONTEXT, page>>

locals ==
  <<context_docs, contexts, filenames, experiments_found, is_multi_experiment, prompt>>

\* the framework file has content except for a few inputs that cover its
\* other states
FrameworkFileOf(q, r) ==
  IF q = QGeneral /\ Len(r[1]) + Len(r[2]) <= 1
  THEN FrameworkFiles
  ELSE {[readable |-> TRUE, content |-> FrameworkFileText]}

Init ==
  /\ query \in QuerySet
  /\ run_dir \in RunDirSet
  /\ \E r \in RetrievalSet :
       /\ multi_docs = r[1]
       /\ single_docs = r[2]
       /\ framework_file \in FrameworkFileOf(query, r)
       /\ FRAMEWORK_CONTEXT = get_framework_context(framework_file)
  /\ pc = "start"
  /\ branch = "none"
  /\ context_docs = <<>>
  /\ contexts = <<>>
  /\ filenames = <<>>
  /\ experiments_found = <<>>
  /\ is_multi_experiment = FALSE
  /\ prompt = <<>>
  /\ USE_LOCAL_MODEL = <<>>
  /\ calls = <<>>
  /\ response = <<>>
  /\ result = <<>>
  /\ experiment = NoExperiment
  /\ runs = [i \in ReRuns |-> "idle"]

Call(name, outcome) == [callee |-> name, outcome |-> outcome]

Return(value) ==
  /\ result' = value
  /\ pc' = "done"

\* lines 56-63: the bandwidth analysis is called and returns its answer
BandwidthAnalysisReturns ==
  /\ pc = "start"
  /\ is_bandwidth_query(query)
  /\ run_dir # <<>>
  /\ branch' = "bandwidth"
  /\ calls' = Append(calls, Call("analyze_bandwidth_for_chat", "returned"))
  /\ Return(AnalysisText)
  /\ UNCHANGED <<inputs, locals, USE_LOCAL_MODEL, response>>

\* lines 56-59, 64-66: the import of line 59 raises, with or without a run
\* directory; analyze_bandwidth_for_chat is not called and the except passes
BandwidthImportRaises ==
  /\ pc = "start"
  /\ is_bandwidth_query(query)
  /\ pc' = "classified"
  /\ UNCHANGED <<inputs, locals, branch, USE_LOCAL_MODEL, calls, response, result>>

\* lines 56-66: analyze_bandwidth_for_chat is called and raises; the except
\* passes
BandwidthAnalysisRaises ==
  /\ pc = "start"
  /\ is_bandwidth_query(query)
  /\ run_dir # <<>>
  /\ calls' = Append(calls, Call("analyze_bandwidth_for_chat", "raised"))
  /\ pc' = "classified"
  /\ UNCHANGED <<inputs, locals, branch, USE_LOCAL_MODEL, response, result>>

\* lines 56-62: not a bandwidth query, or no run directory
BandwidthAnalysisSkipped ==
  /\ pc = "start"
  /\ ~(is_bandwidth_query(query) /\ run_dir # <<>>)
  /\ pc' = "classified"
  /\ UNCHANGED <<inputs, locals, branch, USE_LOCAL_MODEL, calls, response, result>>

\* mutant of ReasoningNoData: the emptiness test of lines 284-287 is missing
\* and think_step_by_step is called without data
ReasoningNoData_Unchecked ==
  /\ pc = "classified"
  /\ IsReasoningQuery(query)
  /\ SelectDocs(multi_docs, single_docs) = <<>>
  /\ branch' = "reasoning"
  /\ prompt' = CombinedContext(<<>>, FRAMEWORK_CONTEXT)
  /\ calls' = Append(calls, Call("think_step_by_step", "pending"))
  /\ pc' = "think"
  /\ UNCHANGED <<inputs, context_docs, contexts, filenames, experiments_found,
                 is_multi_experiment, USE_LOCAL_MODEL, response, result>>

\* lines 69-70, 272-273, 316-317: reasoning query, the import of
\* think_step_by_step raises before any retrieval and the except answers
ReasoningImportRaises ==
  /\ pc = "classified"
  /\ IsReasoningQuery(query)
  /\ branch' = "reasoning"
  /\ Return(ReasoningErrorLit \o ImportError)
  /\ UNCHANGED <<inputs, locals, USE_LOCAL_MODEL, calls, response>>

\* lines 69-70, 276-287: reasoning query, both retrievals empty
ReasoningNoData ==
  /\ pc = "classified"
  /\ IsReasoningQuery(query)
  /\ SelectDocs(multi_docs, single_docs) = <<>>
  /\ branch' = "reasoning"
  /\ Return(NoDataReasoningMsg)
  /\ UNCHANGED <<inputs, locals, USE_LOCAL_MODEL, calls, response>>

\* lines 69-70, 276-308: reasoning query, think_step_by_step is called with
\* use_api=True whatever the environment holds
ReasoningCallsThink ==
  /\ pc = "classified"
  /\ IsReasoningQuery(query)
  /\ SelectDocs(multi_docs, single_docs) # <<>>
  /\ branch' = "reasoning"
  /\ context_docs' = SelectDocs(multi_docs, single_docs)
  /\ prompt' = CombinedContext(context_docs', FRAMEWORK_CONTEXT)
  /\ USE_LOCAL_MODEL' \in EnvValues
  /\ calls' = Append(calls, Call("think_step_by_step", "pending"))
  /\ pc' = "think"
  /\ UNCHANGED <<inputs, contexts, filenames, experiments_found, is_multi_experiment,
                 response, result>>

\* a retrieval function raises: the first one, or the second one after the
\* first returned an empty pool (lines 74-81 and 276-283)
RetrievalRaises ==
  \E callee \in {"get_all_multi_experiment_documents",
                 "get_all_single_experiment_documents"} :
     /\ callee = "get_all_single_experiment_documents" => multi_docs = <<>>
     /\ calls' = Append(calls, Call(callee, "raised"))

\* lines 69-70, 276-283, 316-317: reasoning query, a retrieval raises and
\* the except of the reasoning function answers; think_step_by_step is not
\* called
ReasoningRetrievalRaises ==
  /\ pc = "classified"
  /\ IsReasoningQuery(query)
  /\ RetrievalRaises
  /\ branch' = "reasoning"
  /\ Return(ReasoningErrorLit \o RetrievalError)
  /\ UNCHANGED <<inputs, locals, USE_LOCAL_MODEL, response>>

SetLastOutcome(outcome) ==
  calls' = [calls EXCEPT ![Len(calls)].outcome = outcome]

\* lines 308-314
ThinkReturns ==
  /\ pc = "think"
  /\ SetLastOutcome("returned")
  /\ Return(FormatReasoning(ThinkReasoning, ThinkResult))
  /\ UNCHANGED <<inputs, locals, branch, USE_LOCAL_MODEL, response>>

\* lines 316-317
ThinkRaises ==
  /\ pc = "think"
  /\ SetLastOutcome("raised")
  /\ Return(ReasoningErrorLit \o ThinkError)
  /\ UNCHANGED <<inputs, locals, branch, USE_LOCAL_MODEL, response>>

\* lines 74-85: general query, both retrievals empty
GeneralNoData ==
  /\ pc = "classified"
  /\ ~IsReasoningQuery(query)
  /\ SelectDocs(multi_docs, single_docs) = <<>>
  /\ branch' = "general"
  /\ Return(NoDataMsg)
  /\ UNCHANGED <<inputs, locals, USE_LOCAL_MODEL, calls, response>>

\* lines 74-81, 242-243: general query, a retrieval raises and the outer
\* except answers
GeneralRetrievalRaises ==
  /\ pc = "classified"
  /\ ~IsReasoningQuery(query)
  /\ RetrievalRaises
  /\ branch' = "general"
  /\ Return(SearchErrorMsg)
  /\ UNCHANGED <<inputs, locals, USE_LOCAL_MODEL, response>>

\* lines 74-205: general query, the context and the prompt are built
BuildContextAndPrompt ==
  /\ pc = "classified"
  /\ ~IsReasoningQuery(query)
  /\ SelectDocs(multi_docs, single_docs) # <<>>
  /\ branch' = "general"
  /\ context_docs' = SelectDocs(multi_docs, single_docs)
  /\ contexts' = Contexts(context_docs')
  /\ filenames' = IncludedFilenames(context_docs')
  /\ experiments_found' \in Orders(ExperimentsFound(context_docs'))
  /\ is_multi_experiment' = IsMultiExperiment(context_docs')
  /\ prompt' = BuildPrompt(query, context_docs', experiments_found', FRAMEWORK_CONTEXT)
  /\ pc' = "dispatch"
  /\ UNCHANGED <<inputs, USE_LOCAL_MODEL, calls, response, result>>

\* mutant of Dispatch: the value of the flag is compared without lower()
Dispatch_CaseSensitive ==
  /\ pc = "dispatch"
  /\ USE_LOCAL_MODEL' \in EnvValues
  /\ IF USE_LOCAL_MODEL' = EnvTrue
     THEN /\ calls' = Append(calls, Call("generate_with_ollama", "pending"))
          /\ pc' = "ollama"
     ELSE /\ calls' = Append(calls, Call("generate_with_api", "pending"))
          /\ pc' = "api"
  /\ UNCHANGED <<inputs, locals, branch, response, result>>

\* lines 209-214: the flag is read and one backend is called
Dispatch ==
  /\ pc = "dispatch"
  /\ USE_LOCAL_MODEL' \in EnvValues
  /\ IF Lower(USE_LOCAL_MODEL') = EnvTrue
     THEN /\ calls' = Append(calls, Call("generate_with_ollama", "pending"))
          /\ pc' = "ollama"
     ELSE /\ calls' = Append(calls, Call("generate_with_api", "pending"))
          /\ pc' = "api"
  /\ UNCHANGED <<inputs, locals, branch, response, result>>

\* lines 36-47, 216-237: the local model answers
OllamaReturns ==
  /\ pc = "ollama"
  /\ SetLastOutcome("returned")
  /\ response' = generate_with_ollama(LocalResponseField)
  /\ Return(Compose(response', context_docs, experiments_found))
  /\ UNCHANGED <<inputs, locals, branch, USE_LOCAL_MODEL>>

\* lines 48-49, 216-237: the request to the local model raises
OllamaRaises ==
  /\ pc = "ollama"
  /\ SetLastOutcome("raised")
  /\ response' = OllamaErrorMsg
  /\ Return(Compose(response', context_docs, experiments_found))
  /\ UNCHANGED <<inputs, locals, branch, USE_LOCAL_MODEL>>

\* lines 377-387, 216-237: the service answers, with or without the prompt
ApiReturns ==
  /\ pc = "api"
  /\ SetLastOutcome("returned")
  /\ \E text \in {ApiCompletion, prompt \o ApiCompletion} :
       response' = generate_with_api(prompt, text)
  /\ Return(Compose(response', context_docs, experiments_found))
  /\ UNCHANGED <<inputs, locals, branch, USE_LOCAL_MODEL>>

\* lines 389-395, 216-237: the call to the service raises
ApiRaises ==
  /\ pc = "api"
  /\ SetLastOutcome("raised")
  /\ \E order \in Orders(FallbackExperimentsFound(context_docs)), build \in Builds :
       response' = generate_with_api_failed(query, context_docs, order, build)
  /\ Return(Compose(response', context_docs, experiments_found))
  /\ UNCHANGED <<inputs, locals, branch, USE_LOCAL_MODEL>>

\* a direct call fallback_parser(query, pool) on the retrieved pool
CallFallbackParser ==
  /\ pc = "start"
  /\ branch' = "fallback_parser"
  /\ context_docs' = SelectDocs(multi_docs, single_docs)
  /\ \E order \in Orders(FallbackExperimentsFound(context_docs')), build \in Builds :
       Return(fallback_parser(query, context_docs', order, build))
  /\ UNCHANGED <<inputs, contexts, filenames, experiments_found, is_multi_experiment,
                 prompt, USE_LOCAL_MODEL, calls, response>>

\* a direct call generate_with_api(prompt), as line 363 makes it, with the
\* query as the prompt (lines 365-387): the service returns a completion,
\* alone or behind the prompt
CallGenerateWithApi ==
  /\ pc = "start"
  /\ branch' = "generate_with_api"
  /\ prompt' = query
  /\ calls' = Append(calls, Call("generate_with_api", "returned"))
  /\ response' \in {ApiCompletion, prompt' \o ApiCompletion, ApiAnswer}
  /\ Return(generate_with_api(prompt', response'))
  /\ UNCHANGED <<inputs, context_docs, contexts, filenames, experiments_found,
                 is_multi_experiment, USE_LOCAL_MODEL>>

\* the same call when the service raises (lines 389-395): context_docs and
\* query are None
CallGenerateWithApiRaises ==
  /\ pc = "start"
  /\ branch' = "generate_with_api"
  /\ prompt' = query
  /\ calls' = Append(calls, Call("generate_with_api", "raised"))
  /\ \E build \in Builds : Return(generate_with_api_failed(<<>>, <<>>, <<>>, build))
  /\ UNCHANGED <<inputs, context_docs, contexts, filenames, experiments_found,
                 is_multi_experiment, USE_LOCAL_MODEL, response>>

Next ==
  \/ BandwidthAnalysisReturns
  \/ BandwidthImportRaises
  \/ BandwidthAnalysisRaises
  \/ BandwidthAnalysisSkipped
  \/ ReasoningImportRaises
  \/ ReasoningNoData
  \/ ReasoningRetrievalRaises
  \/ ReasoningCallsThink
  \/ ThinkReturns
  \/ ThinkRaises
  \/ GeneralNoData
  \/ GeneralRetrievalRaises
  \/ BuildContextAndPrompt
  \/ Dispatch
  \/ OllamaReturns
  \/ OllamaRaises
  \/ ApiReturns
  \/ ApiRaises
  \/ CallFallbackParser
  \/ CallGenerateWithApi
  \/ CallGenerateWithApiRaises

Spec == Init /\ [][Next]_vars

(***************************************************************************)
(* The experiment page: calls of re_run_experiment, each with its          *)
(* background thread, interleaved with one another and with the edit and   *)
(* delete handlers.  runs[i] is the position of the i-th call: "idle"      *)
(* before the call, "called" after the update of line 36, "started" after  *)
(* thread.start(), "job" while local_run_single_job executes, "returned"   *)
(* and "raised" before the final update, "ended" when the thread is over.  *)
(***************************************************************************)
pipeline ==
  <<query, run_dir, multi_docs, single_docs, framework_file, FRAMEWORK_CONTEXT, pc,
    branch, context_docs, contexts, filenames, experiments_found, is_multi_experiment,
    prompt, USE_LOCAL_MODEL, calls, response, result>>

\* no call of the answer pipeline is in progress
PipelineIdle ==
  /\ query = <<>>
  /\ run_dir = <<>>
  /\ multi_docs = <<>>
  /\ single_docs = <<>>
  /\ framework_file = [readable |-> FALSE, content |-> <<>>]
  /\ FRAMEWORK_CONTEXT = get_framework_context(framework_file)
  /\ pc = "idle"
  /\ branch = "none"
  /\ context_docs = <<>>
  /\ contexts = <<>>
  /\ filenames = <<>>
  /\ experiments_found = <<>>
  /\ is_multi_experiment = FALSE
  /\ prompt = <<>>
  /\ USE_LOCAL_MODEL = <<>>
  /\ calls = <<>>
  /\ response = <<>>
  /\ result = <<>>

\* an experiment whose first run is over, with any stored params
ReRunInit ==
  /\ PipelineIdle
  /\ \E state \in {"Finished", "Error"}, params \in StoredParams :
       experiment = StoredExperiment(state, params)
  /\ runs = [i \in ReRuns |-> "idle"]

Step(i, to) == runs' = [runs EXCEPT ![i] = to]

\* lines 32-39: the handler marks the record
ReRunMarks(i) ==
  /\ runs[i] = "idle"
  /\ experiment' = UpdateOne(experiment, [state |-> "Re-Running"])
  /\ Step(i, "called")
  /\ UNCHANGED pipeline

\* lines 85-90: the thread is started and the handler returns
ThreadStarts(i) ==
  /\ runs[i] = "called"
  /\ Step(i, "started")
  /\ UNCHANGED <<pipeline, experiment>>

\* lines 43-60: the thread reads the record; it returns when there is none,
\* and raises when the params do not unpack or convert, or when Routing has
\* no member of the stored name
FindExperiment(i) ==
  /\ runs[i] = "started"
  /\ IF ~experiment.present THEN Step(i, "ended")
     ELSE IF ~ParamsWellFormed(experiment.params) THEN Step(i, "raised")
     ELSE \E routing_known \in BOOLEAN :
            Step(i, IF routing_known THEN "job" ELSE "raised")
  /\ UNCHANGED <<pipeline, experiment>>

\* lines 57-64: local_run_single_job returns
JobReturns(i) ==
  /\ runs[i] = "job"
  /\ Step(i, "returned")
  /\ UNCHANGED <<pipeline, experiment>>

\* lines 57-63, 77: local_run_single_job raises
JobRaises(i) ==
  /\ runs[i] = "job"
  /\ Step(i, "raised")
  /\ UNCHANGED <<pipeline, experiment>>

\* lines 66-76: the final update of a run that succeeded
WriteFinished(i) ==
  /\ runs[i] = "returned"
  /\ experiment' = UpdateOne(experiment, [state |-> "Finished", end_time |-> "re-run"])
  /\ Step(i, "ended")
  /\ UNCHANGED pipeline

\* mutant of WriteError: the handler only prints the exception
WriteError_PrintOnly(i) ==
  /\ runs[i] = "raised"
  /\ Step(i, "ended")
  /\ UNCHANGED <<pipeline, experiment>>

\* lines 77-82: the final update of a run that raised
WriteError(i) ==
  /\ runs[i] = "raised"
  /\ experiment' = UpdateOne(experiment, [state |-> "Error", error |-> "re-run failed"])
  /\ Step(i, "ended")
  /\ UNCHANGED pipeline

\* lines 94-109: save_edited_experiment
SaveEditedExperiment ==
  /\ \E params \in FormParams, name \in FormNames :
       experiment' = UpdateOne(experiment, [params |-> params, simulation_name |-> name])
  /\ UNCHANGED <<pipeline, runs>>

\* lines 112-119: delete_experiment
DeleteExperiment ==
  /\ experiment.present
  /\ experiment' = NoExperiment
  /\ UNCHANGED <<pipeline, runs>>

ReRunNext ==
  \/ \E i \in ReRuns :
       \/ ReRunMarks(i)
       \/ ThreadStarts(i)
       \/ FindExperiment(i)
       \/ JobReturns(i)
       \/ JobRaises(i)
       \/ WriteFinished(i)
       \/ WriteError(i)
  \/ SaveEditedExperiment
  \/ DeleteExperiment

ReRunSpec == ReRunInit /\ [][ReRunNext]_vars

(***************************************************************************)
(* Reading an answer and a context entry back, for the properties.         *)
(***************************************************************************)
\* position of the first occurrence of sub in s, 0 when there is none
IndexOf(s, sub) ==
  LET hits == {i \in 1..(Len(s) - Len(sub) + 1) : SubSeq(s, i, i + Len(sub) - 1) = sub}
  IN  IF hits = {} THEN 0 ELSE CHOOSE i \in hits : \A j \in hits : i <= j

HasSourcesBlock(answer) ==
  /\ IndexOf(answer, SourcesOpenLit) > 0
  /\ EndsWith(answer, SourcesCloseLit)

\* the answer body: what precedes the sources block
AnswerBody(answer) ==
  IF HasSourcesBlock(answer)
  THEN SubSeq(answer, 1, IndexOf(answer, SourcesOpenLit) - 1)
  ELSE answer

\* the "- item" lines of the sources block, without the dash
RECURSIVE DashItems(_)
DashItems(lines) ==
  IF Len(lines) = 0 THEN <<>>
  ELSE (IF StartsWith(lines[1], SourceItemLit[1]) THEN <<Drop(lines[1], Len(SourceItemLit[1]))>> ELSE <<>>)
       \o DashItems(Tail(lines))

ListedSources(answer) ==
  LET a == IndexOf(answer, SourcesOpenLit) + Len(SourcesOpenLit)
      block == SubSeq(answer, a, Len(answer) - Len(SourcesCloseLit))
  IN  DashItems(Split(block, "\n"))

\* the label line of a context entry, as the two labelling modes write it
FilenameLabel(doc) == ContextLit[1] \o doc.filename \o ContextLit[5]

ExperimentLabel(doc) ==
  ContextLit[1] \o doc.experiment_name \o ContextLit[2] \o doc.filename
    \o ContextLit[3] \o doc.experiment_params \o ContextLit[4]

\* the excerpt inside a context entry that begins with the given label
EntryExcerpt(entry, label) ==
  SubSeq(entry, Len(label) + 1, Len(entry) - Len(Ellipsis3))

\* the structural excerpt: first 5 lines, the marker, last 3 lines
StructuralExcerpt(text) ==
  LET lines == Split(text, "\n")
  IN  Join(<<"\n">>, SubSeq(lines, 1, Min(5, Len(lines))) \o <<Ellipsis3>>
                      \o SubSeq(lines, Max(Len(lines) - 3, 0) + 1, Len(lines)))

IsTabular(doc) ==
  /\ EndsWith(doc.filename, DotCsv)
  /\ \E i \in 1..Len(doc.text) : doc.text[i] = "\n"

\* the context has been built by the general branch
ContextBuilt == branch = "general" /\ pc \in {"dispatch", "ollama", "api", "done"} /\ context_docs # <<>>

GenerationCallees == {"generate_with_ollama", "generate_with_api", "think_step_by_step"}

LastCallRaised ==
  /\ Len(calls) > 0
  /\ calls[Len(calls)].callee \in GenerationCallees
  /\ calls[Len(calls)].outcome = "raised"

DistinctExperimentNames(pool) == {pool[i].experiment_name : i \in 1..Len(pool)} \ {<<>>}

(***************************************************************************)
(* C1  Reasoning before bandwidth.                                         *)
(***************************************************************************)
HasStepByStep == Contains(Lower(query), KwStepByStep)

\* the call is a direct call of a helper, not a call of generate_response
DirectCall == branch \in {"fallback_parser", "generate_with_api"}

\* C1 as stated: every call of generate_response whose query contains
\* "step by step" (any case) is answered on the reasoning branch, never on
\* the bandwidth-analysis branch.
C1_StepByStepAlwaysReasoning ==
  (pc = "done" /\ ~DirectCall /\ HasStepByStep) => branch = "reasoning"

\* analyze_bandwidth_for_chat was called and returned
AnalysisReturned ==
  \E i \in 1..Len(calls) : calls[i] = Call("analyze_bandwidth_for_chat", "returned")

\* C1 amended: the bandwidth test comes first.  A query containing "step by
\* step" is answered by the bandwidth analysis when it satisfies
\* is_bandwidth_query, run_dir is set, the import of line 59 succeeds and
\* analyze_bandwidth_for_chat returns; in every other case (the import or
\* the analysis raised included) it is answered on the reasoning branch.
C1_StepByStepAfterBandwidth ==
  (pc = "done" /\ ~DirectCall /\ HasStepByStep) =>
     /\ AnalysisReturned => is_bandwidth_query(query) /\ run_dir # <<>>
     /\ IF AnalysisReturned
        THEN branch = "bandwidth" /\ result = AnalysisText
        ELSE branch = "reasoning"

\* a "step by step" bandwidth query with run_dir whose call of
\* analyze_bandwidth_for_chat raised and that the reasoning branch answered
C1_Witness ==
  /\ pc = "done"
  /\ HasStepByStep
  /\ is_bandwidth_query(query)
  /\ run_dir # <<>>
  /\ branch = "reasoning"
  /\ Len(calls) = 2
  /\ calls[1] = Call("analyze_bandwidth_for_chat", "raised")

(***************************************************************************)
(* C2  Empty retrieval.                                                    *)
(***************************************************************************)
\* a retrieval function raised instead of returning a pool
RetrievalRaised ==
  \E i \in 1..Len(calls) :
     /\ calls[i].outcome = "raised"
     /\ calls[i].callee \in {"get_all_multi_experiment_documents",
                             "get_all_single_experiment_documents"}

\* the import of line 273 raised and no retrieval function was called
ImportRaised == branch = "reasoning" /\ result = ReasoningErrorLit \o ImportError

\* both retrieval functions are called and return an empty pool
BothEmpty ==
  multi_docs = <<>> /\ single_docs = <<>> /\ ~RetrievalRaised /\ ~ImportRaised

NoGenerationCall == \A i \in 1..Len(calls) : calls[i].callee \notin GenerationCallees

\* C2 as stated: with both pools empty, every call of generate_response
\* returns the one fixed "no data found" message and makes no generation
\* backend call.
C2_OneNoDataMessage ==
  (pc = "done" /\ ~DirectCall /\ BothEmpty) =>
     (result = NoDataMsg /\ NoGenerationCall)

\* C2 amended: with both pools empty no generation backend is ever called,
\* and a call that is not answered by the bandwidth analysis returns the
\* fixed no-data message of its branch: "...to answer your question." on
\* the general branch, "...to reason about." on the reasoning branch.
C2_NoDataMessagePerBranch ==
  (BothEmpty /\ ~DirectCall) =>
     /\ NoGenerationCall
     /\ (pc = "done" /\ branch # "bandwidth") =>
           result = IF IsReasoningQuery(query) THEN NoDataReasoningMsg ELSE NoDataMsg

\* a reasoning query answered with the reasoning branch's no-data message
C2_Witness ==
  /\ pc = "done"
  /\ BothEmpty
  /\ branch = "reasoning"
  /\ result = NoDataReasoningMsg

(***************************************************************************)
(* C3  Backend failure is answered by fallback_parser.                     *)
(***************************************************************************)
\* C3: whenever the generation call that generate_response dispatches for a
\* query answered from a non-empty pool raised, the answer body is the
\* output of fallback_parser for the query and the pool, for either value
\* of USE_LOCAL_MODEL.
C3_FailureGivesFallback ==
  (pc = "done" /\ branch = "general" /\ context_docs # <<>> /\ LastCallRaised) =>
     \E order \in Orders(FallbackExperimentsFound(context_docs)), build \in Builds :
        AnswerBody(result) = fallback_parser(query, context_docs, order, build)

(***************************************************************************)
(* C4  Sources block.                                                      *)
(***************************************************************************)
SourceLabel(doc, multi) ==
  IF multi THEN doc.experiment_name \o SourceItemLit[2] \o doc.filename ELSE doc.filename

Labels(docs, multi) == [i \in 1..Len(docs) |-> SourceLabel(docs[i], multi)]

\* C4 as stated: every answer for a non-empty pool, reasoning branch
\* included, carries a sources block that lists exactly the documents
\* included in the context, in pool order.
C4_SourcesListIncluded ==
  (pc = "done" /\ branch \in {"general", "reasoning"} /\ context_docs # <<>>) =>
     /\ HasSourcesBlock(result)
     /\ ListedSources(result) = Labels(Included(context_docs), IsMultiExperiment(context_docs))

\* C4 amended: every answer of the general branch for a non-empty pool
\* (generated, fallback or placeholder body) carries a sources block; when
\* is_multi_experiment is false it lists the filename of every document
\* with non-empty text, in pool order; when it is true it lists
\* experiment_name/filename of every document of the pool, in pool order,
\* also those with empty text that are not in the context.  An answer of
\* the reasoning branch carries no sources block: it starts with the
\* <thinking> block when think_step_by_step returned and with the error
\* text of lines 316-317 when it raised.
C4_SourcesPerBranch ==
  (pc = "done" /\ context_docs # <<>>) =>
     /\ branch = "general" =>
          /\ HasSourcesBlock(result)
          /\ ListedSources(result) =
               IF is_multi_experiment
               THEN Labels(context_docs, TRUE)
               ELSE Labels(Included(context_docs), FALSE)
     /\ branch = "reasoning" =>
          /\ ~HasSourcesBlock(result)
          /\ IF LastCallRaised
             THEN StartsWith(result, ReasoningErrorLit)
             ELSE StartsWith(result, ThinkingLit[1])

\* a multi-experiment answer whose sources block lists a document with
\* empty text
C4_Witness ==
  /\ pc = "done"
  /\ branch = "general"
  /\ is_multi_experiment
  /\ \E i \in 1..Len(context_docs) : context_docs[i].text = <<>>
  /\ Len(ListedSources(result)) = Len(context_docs)

(***************************************************************************)
(* C5  is_multi_experiment.                                                *)
(***************************************************************************)
\* C5: the flag computed in generate_response, and the one computed in
\* fallback_parser for the same pool, is true exactly when the pool has
\* more than one distinct non-empty experiment_name, documents with empty
\* text included.
C5_FlagIffSeveralExperiments ==
  ContextBuilt =>
     /\ is_multi_experiment = (Cardinality(DistinctExperimentNames(context_docs)) > 1)
     /\ FallbackIsMultiExperiment(context_docs)
          = (Cardinality(DistinctExperimentNames(context_docs)) > 1)

(***************************************************************************)
(* C6  Excerpting mode.                                                    *)
(***************************************************************************)
\* C6 as stated: the mode is decided per pool.  When is_multi_experiment is
\* false every entry is the filename label with a 1000-character excerpt;
\* experiment labels occur only when it is true; the template agrees.
C6_ModePerPool ==
  ContextBuilt =>
     LET inc == Included(context_docs)
     IN  /\ ~is_multi_experiment =>
              \A k \in 1..Len(inc) :
                 contexts[k] = FilenameLabel(inc[k]) \o Take(inc[k].text, 1000) \o Ellipsis3
         /\ StartsWith(prompt, PromptMultiLit[1]) <=> is_multi_experiment

\* C6 amended: the mode is decided per document from its own
\* experiment_name.  A document with an experiment_name gets the
\* experiment/parameter label and an excerpt of the pool-size bucket
\* (400/600/1000; structural for a long .csv), also when
\* is_multi_experiment is false because the pool names one experiment; a
\* document without experiment_name gets the filename label and 1000
\* characters.  The template follows is_multi_experiment alone.
C6_ModePerDocument ==
  ContextBuilt =>
     LET inc == Included(context_docs)
         n   == Len(context_docs)
         bucket == IF n > 50 THEN 400 ELSE IF n > 20 THEN 600 ELSE 1000
     IN  /\ Len(contexts) = Len(inc)
         /\ \A k \in 1..Len(inc) :
              IF inc[k].experiment_name # <<>>
              THEN /\ StartsWith(contexts[k], ExperimentLabel(inc[k]))
                   /\ EndsWith(contexts[k], Ellipsis3)
                   /\ EntryExcerpt(contexts[k], ExperimentLabel(inc[k]))
                        \in {Take(inc[k].text, bucket)}
                               \cup (IF IsTabular(inc[k]) THEN {StructuralExcerpt(inc[k].text)} ELSE {})
              ELSE contexts[k] = FilenameLabel(inc[k]) \o Take(inc[k].text, 1000) \o Ellipsis3
         /\ StartsWith(prompt, PromptMultiLit[1]) <=> is_multi_experiment
         /\ StartsWith(prompt, PromptSingleLit[1]) <=> ~is_multi_experiment

\* a pool of more than 50 documents of one experiment: the flag is false,
\* the first entry carries the experiment label and 400 characters
C6_Witness ==
  /\ ContextBuilt
  /\ ~is_multi_experiment
  /\ Len(context_docs) > 50
  /\ StartsWith(contexts[1], ExperimentLabel(context_docs[1]))
  /\ Len(EntryExcerpt(contexts[1], ExperimentLabel(context_docs[1]))) = 400

(***************************************************************************)
(* C7  Excerpt buckets in a multi-experiment pool.                         *)
(***************************************************************************)
ClaimedLength(n) == IF n > 50 THEN 400 ELSE IF n <= 20 THEN 1000 ELSE 600

\* C7: in a multi-experiment pool of n documents, the excerpt of every
\* included document whose filename does not end in .csv is the prefix of
\* its text of length 400 when n > 50, 600 when 20 < n <= 50 and 1000 when
\* n <= 20 (the whole text when it is shorter).
C7_BucketByPoolSize ==
  (ContextBuilt /\ is_multi_experiment) =>
     LET inc == Included(context_docs)
     IN  \A k \in 1..Len(inc) :
            ~EndsWith(inc[k].filename, DotCsv) =>
               /\ StartsWith(contexts[k], ExperimentLabel(inc[k]))
               /\ EntryExcerpt(contexts[k], ExperimentLabel(inc[k]))
                    = SubSeq(inc[k].text, 1, Min(Len(inc[k].text), ClaimedLength(Len(context_docs))))

\* a multi-experiment pool of 51 documents whose first document, longer
\* than 1000 characters, is cut to 400
C7_Witness ==
  /\ ContextBuilt
  /\ is_multi_experiment
  /\ Len(context_docs) = 51
  /\ Len(context_docs[1].text) > 1000
  /\ Len(EntryExcerpt(contexts[1], ExperimentLabel(context_docs[1]))) = 400

(***************************************************************************)
(* C8  Structural excerpt of delimited text.                               *)
(***************************************************************************)
LabelOf(doc) == IF doc.experiment_name # <<>> THEN ExperimentLabel(doc) ELSE FilenameLabel(doc)

RawLength(doc, n) ==
  IF doc.experiment_name # <<>> THEN ClaimedLength(n) ELSE 1000

\* C8 as stated: every included .csv document with more than one line gets
\* the structural excerpt, whatever its number of lines; every other
\* document gets a raw prefix.
C8_StructuralForEveryCsv ==
  ContextBuilt =>
     LET inc == Included(context_docs)
     IN  \A k \in 1..Len(inc) :
            EntryExcerpt(contexts[k], LabelOf(inc[k])) =
               IF IsTabular(inc[k])
               THEN StructuralExcerpt(inc[k].text)
               ELSE Take(inc[k].text, RawLength(inc[k], Len(context_docs)))

\* C8 amended: the structural excerpt is built only for a document that
\* carries an experiment_name, whose filename ends in .csv and whose text
\* splits into more than 10 lines; every other included document, .csv
\* documents of at most 10 lines and documents without experiment_name
\* included, gets a raw prefix of the chosen length.
C8_StructuralForLongTaggedCsv ==
  ContextBuilt =>
     LET inc == Included(context_docs)
     IN  \A k \in 1..Len(inc) :
            EntryExcerpt(contexts[k], LabelOf(inc[k])) =
               IF /\ IsTabular(inc[k])
                  /\ inc[k].experiment_name # <<>>
                  /\ Len(Split(inc[k].text, "\n")) > 10
               THEN StructuralExcerpt(inc[k].text)
               ELSE Take(inc[k].text, RawLength(inc[k], Len(context_docs)))

\* an 11-line .csv document of an experiment whose entry is the structural
\* excerpt and not the prefix of its text
C8_Witness ==
  /\ ContextBuilt
  /\ context_docs[1].experiment_name # <<>>
  /\ context_docs[1].text = TCsvElevenLines
  /\ EntryExcerpt(contexts[1], ExperimentLabel(context_docs[1])) = StructuralExcerpt(TCsvElevenLines)
  /\ StructuralExcerpt(TCsvElevenLines) # TCsvElevenLines

(***************************************************************************)
(* C9  fallback_parser always names a file.                                *)
(***************************************************************************)
FallbackReturned == pc = "done" /\ branch = "fallback_parser" /\ context_docs # <<>>

\* C9: for every query and every non-empty pool the string fallback_parser
\* returns is not empty and contains the filename of a document of the
\* pool, on each of its paths.
C9_FallbackNamesAFile ==
  FallbackReturned =>
     /\ Len(result) > 0
     /\ \E i \in 1..Len(context_docs) : Contains(result, context_docs[i].filename)

\* the bandwidth-average path answered from the second document of the
\* pool after the regex path of the first found no number
C9_Witness ==
  /\ FallbackReturned
  /\ Len(context_docs) = 2
  /\ context_docs[1].text = TRaggedLetters
  /\ StartsWith(result, AvgLit[1] \o context_docs[2].filename \o AvgLit[2])

(***************************************************************************)
(* C10  Bandwidth average without numbers.                                 *)
(***************************************************************************)
BandwidthDocs(pool) ==
  {i \in 1..Len(pool) : Contains(Lower(pool[i].filename), KwBandwidth) /\ pool[i].text # <<>>}

\* the document yields no numeric value: the last column of the parsed
\* frame has no numeric entry, or parsing failed and the regex path
\* extracted no positive number
YieldsNoNumber(doc) ==
  IF ~ReadCsvRaises(doc.text)
  THEN LET frame == ReadCsv(doc.text)
       IN  \A r \in 1..Len(frame) : ~IsNumStr(frame[r][Len(frame[1])])
  ELSE \A k \in 1..Len(FindNumbers(doc.text)) :
          ~IsNumStr(FindNumbers(doc.text)[k]) \/ NumVal(FindNumbers(doc.text)[k]).units <= 0

\* C10: on the bandwidth-average path, when the selected bandwidth document
\* yields no numeric value, fallback_parser returns the general summary and
\* no average answer.
C10_NoNumberGivesSummary ==
  (/\ FallbackReturned
   /\ BandwidthAverageIntent(Lower(query))
   /\ ~NodeCountIntent(Lower(query))
   /\ BandwidthDocs(context_docs) # {}
   /\ \A i \in BandwidthDocs(context_docs) : YieldsNoNumber(context_docs[i])) =>
     \E order \in Orders(FallbackExperimentsFound(context_docs)) :
        result = GeneralSummary(context_docs, order)

(***************************************************************************)
(* C11  Node count.                                                        *)
(***************************************************************************)
\* the documents of the pool the node-count path looks at
NodeDocs(pool) ==
  {i \in 1..Len(pool) : pool[i].filename = NodeInfoCsv /\ pool[i].text # <<>>}

\* the text reads as headerless delimited rows: at least one row, and no
\* row wider than the first
ParsesAsRows(text) ==
  LET rows == {i \in 1..Len(Split(text, "\n")) : Strip(Split(text, "\n")[i]) # <<>>}
      Width(i) == Len(Split(Split(text, "\n")[i], ","))
  IN  /\ rows # {}
      /\ \A i \in rows : Width(i) <= Width(CHOOSE k \in rows : \A j \in rows : k <= j)

\* the values of the first column, one per non-blank row, the first row
\* included
FirstColumnValues(text) ==
  LET lines == Split(text, "\n")
  IN  {Split(lines[i], ",")[1] : i \in {k \in 1..Len(lines) : Strip(lines[k]) # <<>>}}

\* C11: for a node-count query and a pool whose first node_info.csv with
\* text parses as headerless delimited rows, fallback_parser reports the
\* number of distinct values of the first column, every row counted, the
\* first one included.
C11_NodeCountDistinctFirstColumn ==
  (/\ FallbackReturned
   /\ NodeCountIntent(Lower(query))
   /\ NodeDocs(context_docs) # {}) =>
     LET first == CHOOSE i \in NodeDocs(context_docs) : \A j \in NodeDocs(context_docs) : i <= j
         text  == context_docs[first].text
     IN  ParsesAsRows(text) =>
           result = NodeCountLit[1] \o IntToStr(Cardinality(FirstColumnValues(text)))
                      \o NodeCountLit[2]

\* the node file whose first row is unlike the others: two distinct values
\* only when the first row is counted
C11_Witness ==
  /\ FallbackReturned
  /\ NodeCountIntent(Lower(query))
  /\ context_docs[1].filename = NodeInfoCsv
  /\ context_docs[1].text = TNodesHeader
  /\ result = NodeCountLit[1] \o <<"2">> \o NodeCountLit[2]

(***************************************************************************)
(* C12  Framework context.                                                 *)
(***************************************************************************)
\* C12: the framework context loaded at import is not empty, in every
\* state and for every state of the framework file: missing or unreadable,
\* readable with content, readable and empty.
C12_FrameworkContextNonEmpty ==
  Len(FRAMEWORK_CONTEXT) > 0

(***************************************************************************)
(* C13  One backend per query.                                             *)
(***************************************************************************)
\* the generation calls made so far
GenerationCalls == {i \in 1..Len(calls) : calls[i].callee \in GenerationCallees}

\* the flag selects the local backend; the code compares its lower-cased
\* value with "true" (line 209)
FlagIsTrue == Lower(USE_LOCAL_MODEL) = EnvTrue

\* the backend a callee sends the prompt to: generate_with_ollama posts to
\* the local model runner; generate_with_api and think_step_by_step, which
\* is called with use_api=True (line 308), use the hosted service
BackendOf(callee) == IF callee = "generate_with_ollama" THEN "local" ELSE "remote"

\* the call has reached generation and returned its answer
GenerationReached ==
  pc = "done" /\ branch \in {"general", "reasoning"} /\ context_docs # <<>>

\* C13 as stated: every query that reaches generation, general or
\* reasoning, makes exactly one generation call, to the local backend when
\* USE_LOCAL_MODEL is "true" and to the remote one otherwise.
C13_OneBackendByFlag ==
  GenerationReached =>
     /\ Cardinality(GenerationCalls) = 1
     /\ \A i \in GenerationCalls :
          BackendOf(calls[i].callee) = IF FlagIsTrue THEN "local" ELSE "remote"

\* C13 amended: the general branch makes exactly one generation call,
\* generate_with_ollama when the lower-cased flag is "true" and
\* generate_with_api otherwise; the reasoning branch makes exactly one
\* call, think_step_by_step, whatever the flag is.  No call is made twice,
\* also when the call raised.
C13_OneCallPerBranch ==
  GenerationReached =>
     /\ Cardinality(GenerationCalls) = 1
     /\ \A i \in GenerationCalls :
          calls[i].callee =
             IF branch = "reasoning" THEN "think_step_by_step"
             ELSE IF FlagIsTrue THEN "generate_with_ollama" ELSE "generate_with_api"

\* the flag is "True", the local backend was called, it raised, and the
\* answer was returned without a second call
C13_Witness ==
  /\ GenerationReached
  /\ branch = "general"
  /\ USE_LOCAL_MODEL = EnvTrueCapital
  /\ calls = <<Call("generate_with_ollama", "raised")>>

(***************************************************************************)
(* C14  Bandwidth average and the node-count intent.                       *)
(***************************************************************************)
\* the text parses and its last column has a numeric entry
HasNumericLastColumn(doc) ==
  /\ ~ReadCsvRaises(doc.text)
  /\ LET frame == ReadCsv(doc.text)
     IN  \E r \in 1..Len(frame) : IsNumStr(frame[r][Len(frame[1])])

\* the result is an average-bandwidth answer naming a bandwidth document
IsAverageAnswer(answer, pool) ==
  \E i \in BandwidthDocs(pool) : StartsWith(answer, AvgLit[1] \o pool[i].filename \o AvgLit[2])

\* C14: for a query with "bandwidth" and "average" and a pool with a
\* bandwidth document whose last column has numeric values, fallback_parser
\* returns an average-bandwidth answer and not the general summary, also
\* when the query matches the node-count intent and the pool has no
\* node_info.csv.
C14_AverageDespiteNodeIntent ==
  (/\ FallbackReturned
   /\ BandwidthAverageIntent(Lower(query))
   /\ \E i \in BandwidthDocs(context_docs) : HasNumericLastColumn(context_docs[i])
   /\ NodeCountIntent(Lower(query)) => NodeDocs(context_docs) = {}) =>
     IsAverageAnswer(result, context_docs)

(***************************************************************************)
(* C15  The echoed prompt.                                                 *)
(***************************************************************************)
\* generate_with_api was called directly and the service returned a text
ApiTextReturned ==
  /\ pc = "done"
  /\ branch = "generate_with_api"
  /\ calls[Len(calls)].outcome = "returned"

\* the text is the prompt followed by a completion
EchoesPrompt(text, p) == StartsWith(text, p) /\ Len(text) > Len(p)

\* C15: generate_with_api removes the prompt from the returned text exactly
\* when the text is the prompt followed by a completion; a text that does
\* not begin with the prompt is returned in full, trimmed of surrounding
\* whitespace, whatever its length.
C15_PromptRemovedOnlyWhenEchoed ==
  ApiTextReturned =>
     result = IF EchoesPrompt(response, prompt)
              THEN Strip(Drop(response, Len(prompt)))
              ELSE Strip(response)

(***************************************************************************)
(* C16  "Finished" while a run is in progress.                             *)
(***************************************************************************)
\* the background thread of the i-th call has started and is not over
RunInProgress(i) == runs[i] \in {"started", "job", "returned", "raised"}

\* C16: under every interleaving of re_run_experiment calls on the same
\* record, the record's state is "Finished" only when no background run
\* for the experiment is in progress.
C16_FinishedOnlyWhenNoRunInProgress ==
  (experiment.present /\ experiment.state = "Finished") =>
     \A i \in ReRuns : ~RunInProgress(i)

(***************************************************************************)
(* C17  Every run ends in a terminal state.                                *)
(***************************************************************************)
\* every call made so far has run its thread to the end
AllRunsOver ==
  /\ \E i \in ReRuns : runs[i] = "ended"
  /\ \A i \in ReRuns : runs[i] \in {"idle", "ended"}

\* C17: the first step of a call of re_run_experiment writes "Re-Running",
\* before its thread starts; and once every background run started for the
\* experiment is over, the record, if it still exists, is in state
\* "Finished" or "Error", never "Re-Running", also when the stored params
\* are malformed or the simulation job raises.
C17_RunsEndInTerminalState ==
  /\ []((AllRunsOver /\ experiment.present) => experiment.state \in {"Finished", "Error"})
  /\ [][\A i \in ReRuns :
          (runs[i] = "idle" /\ runs'[i] # "idle") =>
             /\ runs'[i] = "called"
             /\ experiment.present => experiment'.state = "Re-Running"]_vars

\* two re-runs of a record whose seed is no integer, both over, the record
\* in state "Error"
C17_Witness ==
  /\ \A i \in ReRuns : runs[i] = "ended"
  /\ experiment.present
  /\ experiment.params = ParamsBadSeed
  /\ experiment.state = "Error"
  /\ experiment.error = "re-run failed"

====
